---- MODULE Spec2Model ----
(***************************************************************************)
(* Self-evolution pipeline of the MCP server: the evolution orchestrator   *)
(* (src/src/evolution/orchestrator.js), the tool sandbox                   *)
(* (src/src/evolution/sandbox.js), the generator                           *)
(* (src/src/evolution/generator.js), the durable store                     *)
(* (src/server/storage.js) and the dynamic registry (src/unnamed/part_010).*)
(*                                                                         *)
(* The program runs on one Node.js event loop.  An action of this module   *)
(* is one run of the loop from one suspension point of an async function   *)
(* to the next one that touches state shared with other requests; awaits   *)
(* that only append the run's own log rows are folded into the action they *)
(* belong to.  A handler that loops synchronously never gives the loop     *)
(* back: the model records that in `blocked`, and no action is enabled     *)
(* after it.                                                               *)
(***************************************************************************)
EXTENDS Integers, Sequences, FiniteSets, TLC

\* ------------------------------------------------------------------ bounds
MaxIds == 7                \* evolution ids (uuidv4 tokens) distinguishable at once
MaxDbFaults == 1           \* failing durable-store calls in one behaviour
MaxExecCalls == 2          \* concurrent calls of DynamicToolRegistry.execute
CapCalls == 6              \* evolve calls of the scripted client of CapSpec
AuditCalls == 2            \* evolve calls of the scripted client of AuditSpec
MaxTimers == 2             \* timers armed in one behaviour of TimeoutSpec
MaxAnswers == 4            \* answers the provider has ready for one generateToolCode
MaxFound == 2              \* candidates one remote API gives to one search
TrailCalls == 3            \* evolve calls of the scripted client of TrailSpec

\* ------------------------------------------------------- program constants
MAX_CONCURRENT_EVOLUTIONS == 5
DEFAULT_TIMEOUT == 5000
MAX_TIMEOUT == 30000
maxRetries == 3

\* ------------------------------------------------------------------ strings
\* A string is a sequence of one-character strings.
LowerCase(ch) ==
  CASE ch = "X" -> "x"
    [] ch = "Y" -> "y"
    [] ch = "Z" -> "z"
    [] OTHER -> ch

IsWhitespace(ch) == ch \in {" "}

\* the character class [a-z0-9_] of the replace() in evolve
IsNameChar(ch) == ch \in {"p", "q", "r", "s", "t", "u", "x", "y", "z", "0", "1", "_"}

RECURSIVE TrimStart(_)
TrimStart(s) ==
  IF s # <<>> /\ IsWhitespace(Head(s)) THEN TrimStart(Tail(s)) ELSE s

RECURSIVE TrimEnd(_)
TrimEnd(s) ==
  IF s # <<>> /\ IsWhitespace(s[Len(s)])
  THEN TrimEnd(SubSeq(s, 1, Len(s) - 1))
  ELSE s

Trim(s) == TrimEnd(TrimStart(s))

ToLowerCase(s) == [i \in 1..Len(s) |-> LowerCase(s[i])]

ReplaceNonNameChars(s) == [i \in 1..Len(s) |-> IF IsNameChar(s[i]) THEN s[i] ELSE "_"]

\* toolName.trim().toLowerCase().replace(/[^a-z0-9_]/g, '_')
SanitizedName(toolName) == ReplaceNonNameChars(ToLowerCase(Trim(toolName)))

\* ------------------------------------------------------------------- maps
\* A JavaScript Map is the set of its <<key, value>> entries, one per key.
MapHas(m, k) == \E e \in m : e[1] = k
MapGet(m, k) == (CHOOSE e \in m : e[1] = k)[2]
MapSet(m, k, v) == {e \in m : e[1] # k} \cup {<<k, v>>}
MapDelete(m, k) == {e \in m : e[1] # k}
MapSize(m) == Cardinality(m)
MapKeys(m) == {e[1] : e \in m}

\* ------------------------------------------------------------ handler source
\* Handler source text is known by the lexical constructs that occur in it
\* (`text`), whether "(" + text + ")" parses (`syntax`), what evaluating that
\* expression yields (`value`) and what calling the resulting function does
\* for each kind of argument object (`run`).  `empty` is the empty string.
Constructs ==
  { "require(", "import x from", "process.exit", "process.env", "child_process",
    "exec(", "spawn(", "eval(", "new Function(", "fs.", "fetch(",
    "XMLHttpRequest", "WebSocket", "http.", "https.", "net.", "dns.",
    "setTimeout(", "setInterval(", "setImmediate(", "__dirname", "__filename",
    "config.env", "globalThis", "global.", "Reflect.", "new Proxy(",
    "Object.getOwnPropertyDescriptor", "Buffer.allocUnsafe", "WeakRef",
    "FinalizationRegistry" }

InputKinds == {"required", "all"}

\* what a call of the handler does: returns (or resolves to) an MCP payload,
\* another truthy value or a falsy value; throws (or rejects); returns a
\* promise that never settles; never returns from a synchronous loop
Behaviours == {"mcp", "object", "nothing", "throws", "pending", "spins"}

\* `other` is an argument object that is neither of the two default test
\* inputs; a handler treats it as the input with all properties unless said
\* otherwise
Code(text, syntax, value, runRequired, runAll) ==
  [empty |-> FALSE, text |-> text, syntax |-> syntax, value |-> value,
   run |-> [required |-> runRequired, all |-> runAll, other |-> runAll]]

EmptyCode ==
  [empty |-> TRUE, text |-> {}, syntax |-> FALSE, value |-> "other",
   run |-> [required |-> "throws", all |-> "throws", other |-> "throws"]]

\* the deny-list of performSecurityScan, in source order; `hits` are the
\* constructs the regular expression matches
dangerousPatterns ==
  << [name |-> "require() call", severity |-> "critical", hits |-> {"require("}],
     [name |-> "import statement", severity |-> "critical", hits |-> {"import x from"}],
     [name |-> "process access", severity |-> "critical", hits |-> {"process.exit", "process.env"}],
     [name |-> "child_process module", severity |-> "critical", hits |-> {"child_process"}],
     [name |-> "exec() call", severity |-> "critical", hits |-> {"exec("}],
     [name |-> "spawn() call", severity |-> "critical", hits |-> {"spawn("}],
     [name |-> "eval() call", severity |-> "critical", hits |-> {"eval("}],
     [name |-> "Function constructor", severity |-> "critical", hits |-> {"new Function("}],
     [name |-> "filesystem access", severity |-> "critical", hits |-> {"fs."}],
     [name |-> "fetch() call", severity |-> "critical", hits |-> {"fetch("}],
     [name |-> "XMLHttpRequest access", severity |-> "critical", hits |-> {"XMLHttpRequest"}],
     [name |-> "WebSocket access", severity |-> "critical", hits |-> {"WebSocket"}],
     [name |-> "http module access", severity |-> "critical", hits |-> {"http."}],
     [name |-> "https module access", severity |-> "critical", hits |-> {"https."}],
     [name |-> "net module access", severity |-> "critical", hits |-> {"net."}],
     [name |-> "dns module access", severity |-> "critical", hits |-> {"dns."}],
     [name |-> "setTimeout call", severity |-> "high", hits |-> {"setTimeout("}],
     [name |-> "setInterval call", severity |-> "critical", hits |-> {"setInterval("}],
     [name |-> "setImmediate call", severity |-> "critical", hits |-> {"setImmediate("}],
     [name |-> "__dirname access", severity |-> "critical", hits |-> {"__dirname"}],
     [name |-> "__filename access", severity |-> "critical", hits |-> {"__filename"}],
     [name |-> "env file access", severity |-> "critical", hits |-> {"process.env", "config.env"}],
     [name |-> "globalThis access", severity |-> "critical", hits |-> {"globalThis"}],
     [name |-> "global access", severity |-> "critical", hits |-> {"global."}],
     [name |-> "Reflect API", severity |-> "high", hits |-> {"Reflect."}],
     [name |-> "Proxy constructor", severity |-> "high", hits |-> {"new Proxy("}],
     [name |-> "property descriptor access", severity |-> "medium", hits |-> {"Object.getOwnPropertyDescriptor"}],
     [name |-> "environment variable access", severity |-> "critical", hits |-> {"process.env"}],
     [name |-> "unsafe buffer allocation", severity |-> "high", hits |-> {"Buffer.allocUnsafe"}],
     [name |-> "WeakRef access", severity |-> "medium", hits |-> {"WeakRef"}],
     [name |-> "FinalizationRegistry access", severity |-> "medium", hits |-> {"FinalizationRegistry"}] >>

PatternTest(pattern, handlerCode) == pattern.hits \cap handlerCode.text # {}

IssuesOfSeverity(issues, severity) ==
  Cardinality({i \in issues : dangerousPatterns[i].severity = severity})

\* a scan that has not been run (the report's securityScan: null)
NullScan ==
  [ran |-> FALSE, passed |-> FALSE, issues |-> {}, criticalCount |-> 0,
   highCount |-> 0, mediumCount |-> 0, lowCount |-> 0]

PerformSecurityScanCriticalOnly(handlerCode) ==
  LET issues == {i \in DOMAIN dangerousPatterns :
                   PatternTest(dangerousPatterns[i], handlerCode)}
  IN [ran |-> TRUE,
      passed |-> ~handlerCode.empty /\ IssuesOfSeverity(issues, "critical") = 0,
      issues |-> IF handlerCode.empty THEN {0} ELSE issues,
      criticalCount |-> IF handlerCode.empty THEN 1
                        ELSE IssuesOfSeverity(issues, "critical"),
      highCount |-> IssuesOfSeverity(issues, "high"),
      mediumCount |-> IssuesOfSeverity(issues, "medium"),
      lowCount |-> IssuesOfSeverity(issues, "low")]

\* ToolSandbox.performSecurityScan; issue 0 is 'Invalid code', the others are
\* indices into dangerousPatterns
PerformSecurityScan(handlerCode) ==
  IF handlerCode.empty
  THEN [ran |-> TRUE, passed |-> FALSE, issues |-> {0}, criticalCount |-> 1,
        highCount |-> 0, mediumCount |-> 0, lowCount |-> 0]
  ELSE LET issues == {i \in DOMAIN dangerousPatterns :
                        PatternTest(dangerousPatterns[i], handlerCode)}
       IN [ran |-> TRUE,
           passed |-> IssuesOfSeverity(issues, "critical") = 0
                      /\ IssuesOfSeverity(issues, "high") = 0,
           issues |-> issues,
           criticalCount |-> IssuesOfSeverity(issues, "critical"),
           highCount |-> IssuesOfSeverity(issues, "high"),
           mediumCount |-> IssuesOfSeverity(issues, "medium"),
           lowCount |-> IssuesOfSeverity(issues, "low")]

\* ------------------------------------------------------------ Sandbox.test
\* a tool definition as the generator returns it; `isNull` is a null tool
Tool(name, inputSchema, handlerCode) ==
  [isNull |-> FALSE, name |-> name, inputSchema |-> inputSchema,
   handlerCode |-> handlerCode]

\* inputSchema: "object" is a schema object, "undefined" a missing one
TestCase(name, input, expectedOutput) ==
  [name |-> name, input |-> input, expectedOutput |-> expectedOutput]

\* ToolSandbox.testCompilation: new vm.Script("(" + handlerCode + ")")
TestCompilation(tool) ==
  IF tool.handlerCode.syntax THEN "passed" ELSE "failed"

\* ToolSandbox.generateDefaultTestCases
GenerateDefaultTestCases(inputSchema) ==
  << TestCase("minimal_required_params", "required", "success"),
     TestCase("all_params", "all", "success") >>

\* ToolSandbox.validateResult; result is what the handler call settled with
ValidateResult(result, expectedOutput) ==
  IF result = "nothing" THEN [passed |-> FALSE, reason |-> "No result returned"]
  ELSE IF result = "mcp" THEN [passed |-> TRUE, reason |-> "Valid MCP response format"]
  ELSE IF expectedOutput = "success"
       THEN [passed |-> TRUE, reason |-> "Execution completed without error"]
  ELSE [passed |-> FALSE, reason |-> "Invalid response format"]

ExecutionResult(passed, invoked, returns, error) ==
  [passed |-> passed, invoked |-> invoked, returns |-> returns, error |-> error]

\* ToolSandbox.testExecution.  `invoked`: the handler was called; `returns`
\* is FALSE when the call handler(testCase.input), made on the caller's
\* stack inside the argument list of Promise.race, never comes back
TestExecution(tool, testCase) ==
  LET code == tool.handlerCode
      behaviour == code.run[testCase.input]
  IN IF ~code.syntax THEN ExecutionResult(FALSE, FALSE, TRUE, "SyntaxError")
     ELSE IF code.value = "throws" THEN ExecutionResult(FALSE, FALSE, TRUE, "evaluation error")
     ELSE IF code.value # "function"
          THEN ExecutionResult(FALSE, FALSE, TRUE, "Handler is not a function")
     ELSE IF behaviour = "spins" THEN ExecutionResult(FALSE, TRUE, FALSE, "")
     ELSE IF behaviour = "throws" THEN ExecutionResult(FALSE, TRUE, TRUE, "handler error")
     ELSE IF behaviour = "pending" THEN ExecutionResult(FALSE, TRUE, TRUE, "Execution timeout")
     ELSE ExecutionResult(ValidateResult(behaviour, testCase.expectedOutput).passed,
                          TRUE, TRUE, "")

Report(passed, securityScan, compilationTest, executionTests, error) ==
  [returns |-> TRUE, passed |-> passed, securityScan |-> securityScan,
   compilationTest |-> compilationTest, executionTests |-> executionTests,
   error |-> error]

RunNoTestCases(tool, testCases) == <<>>

\* the tests of the for loop up to and including the first that never returns
RECURSIVE RunTestCases(_, _)
RunTestCases(tool, testCases) ==
  IF testCases = <<>> THEN <<>>
  ELSE LET first == TestExecution(tool, Head(testCases))
       IN IF first.returns
          THEN <<first>> \o RunTestCases(tool, Tail(testCases))
          ELSE <<first>>

SandboxTestIgnoringScan(tool, testCases) ==
  IF tool.isNull \/ tool.handlerCode.empty
  THEN Report(FALSE, NullScan, "null", <<>>, "Invalid tool: missing handlerCode")
  ELSE LET securityScan == PerformSecurityScan(tool.handlerCode)
           compilationTest == TestCompilation(tool)
           effectiveTestCases ==
             IF Len(testCases) > 0 THEN testCases
             ELSE GenerateDefaultTestCases(tool.inputSchema)
           executionTests == RunTestCases(tool, effectiveTestCases)
       IN IF compilationTest # "passed"
          THEN Report(FALSE, securityScan, compilationTest, <<>>, "Compilation test failed")
          ELSE IF Len(testCases) = 0 /\ tool.inputSchema = "undefined"
          THEN Report(FALSE, securityScan, compilationTest, <<>>, "TypeError")
          ELSE IF \E i \in DOMAIN executionTests : ~executionTests[i].returns
          THEN [Report(FALSE, securityScan, compilationTest, executionTests, "")
                  EXCEPT !.returns = FALSE]
          ELSE Report(\A i \in DOMAIN executionTests : executionTests[i].passed,
                      securityScan, compilationTest, executionTests, "")

\* ToolSandbox.test(tool, testCases).  compilationTest is "null" when the
\* step was not run.  returns = FALSE: the call never returns
SandboxTest(tool, testCases) ==
  IF tool.isNull \/ tool.handlerCode.empty
  THEN Report(FALSE, NullScan, "null", <<>>, "Invalid tool: missing handlerCode")
  ELSE LET securityScan == PerformSecurityScan(tool.handlerCode)
           compilationTest == TestCompilation(tool)
           effectiveTestCases ==
             IF Len(testCases) > 0 THEN testCases
             ELSE GenerateDefaultTestCases(tool.inputSchema)
           executionTests == RunTestCases(tool, effectiveTestCases)
       IN IF ~securityScan.passed
          THEN Report(FALSE, securityScan, "null", <<>>, "Security scan failed")
          ELSE IF compilationTest # "passed"
          THEN Report(FALSE, securityScan, compilationTest, <<>>, "Compilation test failed")
          ELSE IF Len(testCases) = 0 /\ tool.inputSchema = "undefined"
          THEN Report(FALSE, securityScan, compilationTest, <<>>, "TypeError")
          ELSE IF \E i \in DOMAIN executionTests : ~executionTests[i].returns
          THEN [Report(FALSE, securityScan, compilationTest, executionTests, "")
                  EXCEPT !.returns = FALSE]
          ELSE Report(\A i \in DOMAIN executionTests : executionTests[i].passed,
                      securityScan, compilationTest, executionTests, "")

\* --------------------------------------------------------- Sandbox.execute
\* One call of ToolSandbox.execute up to its first suspension: `trace` lists
\* what the call did, in order; `state` is "done" when the call has settled,
\* "waiting" while the race between the handler's promise and the timer is
\* open, "running" while the handler holds the event loop
\* `handler` is the handler's own execution: "none" when it was never called,
\* "settled" when its promise has settled, "live" while it has not
Execution(trace, state, result, error) ==
  [trace |-> trace, state |-> state, result |-> result, error |-> error,
   handler |-> IF \A i \in DOMAIN trace : trace[i] # "invoke" THEN "none"
               ELSE IF state = "done" THEN "settled" ELSE "live"]

SandboxExecuteUnscanned(handlerCode, args) ==
  LET behaviour == handlerCode.run[args]
  IN IF ~handlerCode.syntax
     THEN Execution(<<"compile">>, "done", "", "SyntaxError")
     ELSE IF handlerCode.value = "throws"
     THEN Execution(<<"compile">>, "done", "", "Failed to compile handler")
     ELSE IF handlerCode.value # "function"
     THEN Execution(<<"compile">>, "done", "", "Handler is not a function")
     ELSE IF behaviour = "spins"
     THEN Execution(<<"compile", "timer", "invoke">>, "running", "", "")
     ELSE IF behaviour = "pending"
     THEN Execution(<<"compile", "timer", "invoke">>, "waiting", "", "")
     ELSE IF behaviour = "throws"
     THEN Execution(<<"compile", "timer", "invoke">>, "done", "", "handler error")
     ELSE Execution(<<"compile", "timer", "invoke">>, "done", behaviour, "")

\* ToolSandbox.execute(handlerCode, args), lines 369-415: the scan, the
\* compilation, the timer and the call of the handler in a microtask
SandboxExecute(handlerCode, args) ==
  LET securityScan == PerformSecurityScan(handlerCode)
      behaviour == handlerCode.run[args]
  IN IF ~securityScan.passed
     THEN Execution(<<"scan">>, "done", "", "Security violation")
     ELSE IF ~handlerCode.syntax
     THEN Execution(<<"scan", "compile">>, "done", "", "SyntaxError")
     ELSE IF handlerCode.value = "throws"
     THEN Execution(<<"scan", "compile">>, "done", "", "Failed to compile handler")
     ELSE IF handlerCode.value # "function"
     THEN Execution(<<"scan", "compile">>, "done", "", "Handler is not a function")
     ELSE IF behaviour = "spins"
     THEN Execution(<<"scan", "compile", "timer", "invoke">>, "running", "", "")
     ELSE IF behaviour = "pending"
     THEN Execution(<<"scan", "compile", "timer", "invoke">>, "waiting", "", "")
     ELSE IF behaviour = "throws"
     THEN Execution(<<"scan", "compile", "timer", "invoke">>, "done", "", "handler error")
     ELSE Execution(<<"scan", "compile", "timer", "invoke">>, "done", behaviour, "")

\* the timer of line 399 fires while the race is open: the rejection settles
\* the race, the catch clears the timer and rethrows; no statement reaches
\* the handler, whose promise stays as it was
ExecutionTimeout(execution) ==
  [execution EXCEPT !.state = "done",
                    !.error = "Execution timeout - code took too long to execute"]

\* -------------------------------------------------------- Sandbox timeouts
\* a timeout option: absent, or a number of milliseconds
TimeoutOption(given, ms) == [given |-> given, ms |-> ms]
NoTimeout == TimeoutOption(FALSE, 0)

\* a || b on a timeout option: undefined and 0 are falsy
OrElse(option, fallback) ==
  IF ~option.given \/ option.ms = 0 THEN fallback ELSE option.ms

Min(a, b) == IF a <= b THEN a ELSE b

\* the constructor of ToolSandbox, line 25
ConstructedTimeout(option) == OrElse(option, DEFAULT_TIMEOUT)

\* ToolSandbox.execute, line 370: the delay of the timer of line 399
ExecuteTimeout(option, sandboxTimeout) ==
  Min(OrElse(option, sandboxTimeout), sandboxTimeout)

\* ToolSandbox.testExecution, lines 205 and 222: the delay of the race's timer
TestExecutionTimeout(sandboxTimeout) == sandboxTimeout

\* a timer armed by a call: what was configured and the delay applied
Timer(op, option, sandboxTimeout, timeout) ==
  [op |-> op, option |-> option, sandboxTimeout |-> sandboxTimeout,
   timeout |-> timeout]

\* ---------------------------------------------------------------- Discovery
\* a candidate found by a discovery source: relevanceScore counts tenths,
\* toolImplementation says whether the candidate carries a code excerpt
Candidate(name, relevanceScore, toolImplementation) ==
  [name |-> name, relevanceScore |-> relevanceScore,
   toolImplementation |-> toolImplementation, source |-> ""]

NoCandidate == Candidate("", 0, FALSE)

\* what the remote API of a source gave: a failure, or its candidates
Found(failed, results) == [failed |-> failed, results |-> results]

\* the object a search returns; `throws`: the promise of the search is
\* rejected instead
SearchResult(source, results, error) ==
  [source |-> source, results |-> results, error |-> error, throws |-> FALSE]

\* results.sort((a, b) => b.relevanceScore - a.relevanceScore): the sort is
\* stable, candidates of equal score keep their order
RECURSIVE InsertByRelevance(_, _)
InsertByRelevance(sorted, r) ==
  IF sorted = <<>> THEN <<r>>
  ELSE IF Head(sorted).relevanceScore >= r.relevanceScore
  THEN <<Head(sorted)>> \o InsertByRelevance(Tail(sorted), r)
  ELSE <<r>> \o sorted

RECURSIVE SortByRelevance(_)
SortByRelevance(results) ==
  IF results = <<>> THEN <<>>
  ELSE InsertByRelevance(SortByRelevance(SubSeq(results, 1, Len(results) - 1)),
                         results[Len(results)])

\* the filter of both searches: relevanceScore > 0.3
ValidResults(results) == SelectSeq(results, LAMBDA r : r.relevanceScore > 3)

GitHubSearchUncaught(found) ==
  IF found.failed
  THEN [SearchResult("github", <<>>, TRUE) EXCEPT !.throws = TRUE]
  ELSE SearchResult("github", SortByRelevance(ValidResults(found.results)), FALSE)

\* GitHubDiscovery.search: a failure inside the try is returned as an error
\* result without candidates
GitHubSearch(found) ==
  IF found.failed
  THEN SearchResult("github", <<>>, TRUE)
  ELSE SearchResult("github", SortByRelevance(ValidResults(found.results)), FALSE)

\* PostmanDiscovery.searchPublicApis: the entries are neither filtered nor sorted
SearchPublicApis(found) ==
  IF found.failed
  THEN SearchResult("postman-public", <<>>, TRUE)
  ELSE SearchResult("postman-public", found.results, FALSE)

\* PostmanDiscovery.search: without an API key, and when the search of the
\* collections fails, the public directory is searched instead
PostmanSearch(found) ==
  IF ~found.apiKey \/ found.collections.failed
  THEN SearchPublicApis(found.publicApis)
  ELSE SearchResult("postman",
                    SortByRelevance(ValidResults(found.collections.results)), FALSE)

PostmanFound(apiKey, collections, publicApis) ==
  [apiKey |-> apiKey, collections |-> collections, publicApis |-> publicApis]

\* the candidates of all results, each with the source of its result
RECURSIVE AllResults(_)
AllResults(discoveryResults) ==
  IF discoveryResults = <<>> THEN <<>>
  ELSE [i \in DOMAIN Head(discoveryResults).results |->
          [Head(discoveryResults).results[i] EXCEPT
             !.source = Head(discoveryResults).source]]
       \o AllResults(Tail(discoveryResults))

Analysis(references, suggestedApproach, hasBestMatch, bestMatch) ==
  [canGenerate |-> TRUE, references |-> references,
   suggestedApproach |-> suggestedApproach,
   hasBestMatch |-> hasBestMatch, bestMatch |-> bestMatch]

NoAnalysis == Analysis(<<>>, "", FALSE, NoCandidate)

\* ToolGenerator.analyzeDiscoveryResults
AnalyzeDiscoveryResults(discoveryResults) ==
  LET allResults == AllResults(discoveryResults)
      sortedResults == SortByRelevance(allResults)
      topResults == SubSeq(sortedResults, 1, Min(3, Len(sortedResults)))
  IN IF Len(allResults) = 0
     THEN Analysis(<<>>, "ai-generated", FALSE, NoCandidate)
     ELSE Analysis(topResults,
                   IF topResults[1].toolImplementation THEN "adapt-existing"
                   ELSE "ai-generated",
                   TRUE, topResults[1])

SourceTypeOfBestMatch(analysis) == analysis.bestMatch.source

\* runRegistration, line 233: the sourceType of the row
SourceType(analysis) ==
  IF analysis.hasBestMatch THEN analysis.bestMatch.source ELSE "ai-generated"

\* ---------------------------------------------------------------- Generator
\* the deny-list of ToolGenerator.validateHandlerSecurity, in source order
generatorPatterns ==
  << {"require("}, {"import x from"}, {"process.exit", "process.env"},
     {"child_process"}, {"exec("}, {"spawn("}, {"eval("}, {"new Function("},
     {"fs."}, {"__dirname"}, {"__filename"}, {"process.env", "config.env"},
     {"globalThis"}, {"Reflect."}, {"new Proxy("} >>

\* ToolGenerator.validateHandlerSecurity
ValidateHandlerSecurity(handlerCode) ==
  [safe |-> \A i \in DOMAIN generatorPatterns :
              generatorPatterns[i] \cap handlerCode.text = {}]

\* One answer of providerManager.chat: "unavailable" is a thrown error,
\* "garbage" a text JSON.parse rejects, "json" a parsed object whose missing
\* fields are <<>>, FALSE, "undefined" and EmptyCode
Completion(kind, name, description, inputSchema, handlerCode) ==
  [kind |-> kind, name |-> name, description |-> description,
   inputSchema |-> inputSchema, handlerCode |-> handlerCode]

NullTool ==
  [isNull |-> TRUE, name |-> <<>>, inputSchema |-> "undefined",
   handlerCode |-> EmptyCode]

\* ToolGenerator.parseGeneratedTool
ParseGeneratedTool(response) ==
  IF response.kind # "json"
  THEN [success |-> FALSE, tool |-> NullTool, error |-> "Failed to parse generated tool"]
  ELSE IF response.name = <<>> \/ ~response.description
          \/ response.inputSchema = "undefined" \/ response.handlerCode.empty
  THEN [success |-> FALSE, tool |-> NullTool,
        error |-> "Missing required fields in generated tool"]
  ELSE IF ~ValidateHandlerSecurity(response.handlerCode).safe
  THEN [success |-> FALSE, tool |-> NullTool, error |-> "Security validation failed"]
  ELSE [success |-> TRUE,
        tool |-> Tool(response.name, response.inputSchema, response.handlerCode),
        error |-> ""]

\* the outcome of one attempt of the retry loop of generateToolCode
Attempt(response) ==
  IF response.kind = "unavailable"
  THEN [success |-> FALSE, tool |-> NullTool, error |-> "provider error"]
  ELSE ParseGeneratedTool(response)

\* ToolGenerator.generateToolCode: `responses` are the answers the provider
\* gives to the attempts made; the loop stops at the first success
RECURSIVE GenerateToolCodeFrom(_, _, _)
GenerateToolCodeFrom(responses, attempt, lastError) ==
  IF attempt > maxRetries \/ attempt > Len(responses)
  THEN [success |-> FALSE, tool |-> NullTool, error |-> lastError,
        attempts |-> attempt - 1]
  ELSE LET parsedTool == Attempt(responses[attempt])
       IN IF parsedTool.success
          THEN [success |-> TRUE, tool |-> parsedTool.tool, error |-> "",
                attempts |-> attempt]
          ELSE GenerateToolCodeFrom(responses, attempt + 1, parsedTool.error)

GenerateToolCodeOnce(responses) ==
  GenerateToolCodeFrom(SubSeq(responses, 1, Min(1, Len(responses))), 1, "")

\* generateToolCode: `attempts` counts the calls of the provider
GenerateToolCode(responses) == GenerateToolCodeFrom(responses, 1, "")

\* buildGenerationPrompt(toolName, analysis, options): the name and the
\* references are all the prompt takes from the run
BuildGenerationPrompt(toolName, analysis) ==
  [toolName |-> toolName, references |-> analysis.references]

\* the answers one call of generateToolCode can consume: failed attempts,
\* ended by the first success or by the maxRetries-th failure
RECURSIVE AnswersAfter(_, _)
AnswersAfter(completions, attempt) ==
  LET succeeding == {c \in completions : Attempt(c).success}
      failing == completions \ succeeding
  IN IF attempt = maxRetries
     THEN {<<c>> : c \in completions}
     ELSE {<<c>> : c \in succeeding}
          \cup {<<c>> \o rest : c \in failing,
                                rest \in AnswersAfter(completions, attempt + 1)}

ProviderAnswers(completions) == AnswersAfter(completions, 1)

\* ToolGenerator.generate: analyzeDiscoveryResults always allows generation;
\* only a successful result carries the analysis
Generate(discoveryResults, responses) ==
  LET analysisResult == AnalyzeDiscoveryResults(discoveryResults)
      generatedCode == GenerateToolCode(responses)
  IN [success |-> generatedCode.success, tool |-> generatedCode.tool,
      error |-> generatedCode.error,
      analysis |-> IF generatedCode.success THEN analysisResult ELSE NoAnalysis]

\* ------------------------------------------------------------ durable store
\* the values createGeneratedTool inserts; the table adds the serial id
GeneratedToolData(name, handlerCode, sourceType) ==
  [name |-> name, status |-> "active", handlerCode |-> handlerCode,
   sourceType |-> sourceType]

\* a row of generated_tools
GeneratedToolRow(id, data) ==
  [id |-> id, name |-> data.name, status |-> data.status,
   handlerCode |-> data.handlerCode, sourceType |-> data.sourceType]

InsertWithoutUniqueName(rows, data) ==
  [ok |-> TRUE, rows |-> rows \cup {GeneratedToolRow(Cardinality(rows) + 1, data)}]

CreateGeneratedToolAmongActive(rows, data) ==
  IF \E row \in rows : row.name = data.name /\ row.status = "active"
  THEN [ok |-> FALSE, rows |-> rows]
  ELSE [ok |-> TRUE, rows |-> rows \cup {GeneratedToolRow(Cardinality(rows) + 1, data)}]

\* DatabaseStorage.createGeneratedTool under the unique constraint on
\* generated_tools.name: the insert is refused when a row has the name
CreateGeneratedTool(rows, data) ==
  IF \E row \in rows : row.name = data.name
  THEN [ok |-> FALSE, rows |-> rows]
  ELSE [ok |-> TRUE, rows |-> rows \cup {GeneratedToolRow(Cardinality(rows) + 1, data)}]

\* a row of tool_creation_logs, and the other entries of a run's history:
\* the calls the run makes to its collaborators
LogRow(stage, status) == [kind |-> "log", stage |-> stage, status |-> status]
CallMade(stage, what) == [kind |-> "call", stage |-> stage, status |-> what]

LostRow(stage, status) == [kind |-> "lost", stage |-> stage, status |-> status]

\* EvolutionOrchestrator.logStage: the row is appended unless
\* storage.logToolCreation throws (stored = FALSE), which logStage swallows;
\* the history then keeps the refused insert as a "lost" entry
LogStage(events, stage, status, stored) ==
  IF stored THEN Append(events, LogRow(stage, status))
  ELSE Append(events, LostRow(stage, status))

\* ------------------------------------------------------------------- state
VARIABLES
  activeEvolutions,   \* EvolutionOrchestrator.activeEvolutions: Map name -> evolutionId
  runs,               \* the evolve calls in flight: Map evolutionId -> run
  generatedToolRows,  \* the rows of the generated_tools table
  returned,           \* what the step just taken returned to the caller of evolve
  script,             \* the evolve calls a scripted client has still to make
  blocked,            \* the event loop is held by a handler that never returns
  dbFaults,           \* durable-store calls that may still fail
  generatedTools,     \* DynamicToolRegistry.generatedTools: Map name -> handlerCode
  execs,              \* the calls of DynamicToolRegistry.execute
  testInput,          \* the arguments of a call of ToolSandbox.test
  testReport,         \* what that call returned
  builtinTools,       \* ToolRegistry.builtinTools: the names of the built-in tools
  autoEvolveEnabled,  \* ToolRegistry.autoEvolveEnabled
  calls,              \* the calls of ToolRegistry.execute
  sandboxOption,      \* the timeout option the ToolSandbox was constructed with
  defaultTimeout,     \* ToolSandbox.defaultTimeout
  timers,             \* the timers armed by execute and testExecution
  toolCreationLogs,   \* the rows of the tool_creation_logs table
  chatAnswers,        \* the answers providerManager.chat has still to give
  generated,          \* what a call of generateToolCode did and returned
  initialized,        \* DynamicToolRegistry.initialized
  loads,              \* the calls of loadGeneratedTools that await the rows
  sampledSchema,      \* the inputSchema given to generateDefaultTestCases
  defaultTestCases,   \* what that call returned
  scannedCode,        \* the argument of a call of performSecurityScan
  scanReport,         \* what that call returned
  cache,              \* LRUCache.cache: Map key -> value
  accessOrder,        \* LRUCache.accessOrder
  touched             \* the keys set or read in the cache, oldest first

vars ==
  << activeEvolutions, runs, generatedToolRows, returned, script, blocked, dbFaults,
     generatedTools, execs, testInput, testReport,
     builtinTools, autoEvolveEnabled, calls,
     sandboxOption, defaultTimeout, timers, toolCreationLogs,
     chatAnswers, generated, initialized, loads,
     sampledSchema, defaultTestCases, scannedCode, scanReport,
     cache, accessOrder, touched >>

orchestratorVars ==
  << activeEvolutions, runs, generatedToolRows, returned, script, dbFaults >>
registryVars == << generatedTools, execs >>
sandboxTestVars == << testInput, testReport >>
toolRegistryVars == << builtinTools, autoEvolveEnabled, calls >>
timeoutVars == << sandboxOption, defaultTimeout, timers >>
generatorVars == << chatAnswers, generated >>
reloadVars == << initialized, loads >>
sampleVars == << sampledSchema, defaultTestCases >>
scanVars == << scannedCode, scanReport >>
cacheVars == << cache, accessOrder, touched >>
otherVars == << reloadVars, sampleVars, scanVars, cacheVars >>

Ids == 1..MaxIds

\* an argument of evolve: a string, or a value that is not a string
StringArg(chars) == [isString |-> TRUE, chars |-> chars]
NotAString == [isString |-> FALSE, chars |-> <<>>]

\* the state of one accepted evolve call between two of its steps
Run(toolName, pc, generationResult, testResults, events) ==
  [toolName |-> toolName, pc |-> pc, discoveryResults |-> <<>>,
   generationResult |-> generationResult,
   testResults |-> testResults, events |-> events]

NoGeneration ==
  [success |-> FALSE, tool |-> NullTool, error |-> "", analysis |-> NoAnalysis]
NoTestResults == Report(FALSE, NullScan, "null", <<>>, "")

\* no row: the `tool` of a result that reports no success
NoRow ==
  [id |-> 0, name |-> <<>>, status |-> "", handlerCode |-> EmptyCode,
   sourceType |-> ""]

\* the object an evolve call returns; `rejects`: the promise of the call is
\* rejected instead
Response(toolName, evolutionId, accepted, success, stage, error, events) ==
  [toolName |-> toolName, evolutionId |-> evolutionId, accepted |-> accepted,
   success |-> success, stage |-> stage, error |-> error, events |-> events,
   rejects |-> FALSE, tool |-> NoRow]

NoResponse == Response(NotAString, 0, FALSE, FALSE, "", "none", <<>>)

\* uuidv4(): a token no live object holds; the least one keeps states canonical
UsedIds ==
  {e[2] : e \in activeEvolutions} \cup MapKeys(runs) \cup {returned.evolutionId}
FreeIds == Ids \ UsedIds
Uuidv4 == CHOOSE i \in FreeIds : \A j \in FreeIds : i <= j

\* the outcomes of k durable-store calls of one step: TRUE where the call
\* succeeds; at most dbFaults of them fail
Failed(outcomes) == Cardinality({i \in DOMAIN outcomes : ~outcomes[i]})
StoreOutcomes(k) == {o \in [1..k -> BOOLEAN] : Failed(o) <= dbFaults}

\* ------------------------------------------------------------- Orchestrator
RunOf(evolutionId) == MapGet(runs, evolutionId)

\* evolve, line 43: the name is missing or not a string
NameRejected(toolName) == ~toolName.isString \/ toolName.chars = <<>>

NeverInProgress(sanitizedName) == FALSE

\* evolve, line 55: the per-name lock is held
AlreadyInProgress(sanitizedName) == MapHas(activeEvolutions, sanitizedName)

CapReachedOffByOne == MapSize(activeEvolutions) > MAX_CONCURRENT_EVOLUTIONS

\* evolve, line 64: the global cap is reached
CapReached == MapSize(activeEvolutions) >= MAX_CONCURRENT_EVOLUTIONS

\* evolve, lines 83, 97, 115 and 140: this.activeEvolutions.delete(toolName)
ReleaseLock(toolName) == MapDelete(activeEvolutions, toolName)

\* evolve, line 81
GenerationShortCircuits(generationResult) == ~generationResult.success

TestingNeverShortCircuits(testResults) == FALSE

\* evolve, line 95
TestingShortCircuits(testResults) == ~testResults.passed

\* what each method of a run appends to the run's history
StartedEvents(events, stored) ==
  LogStage(events, "started", "in_progress", stored[1])

DiscoveryEventsSearchFirst(events, stored) ==
  LogStage(
    LogStage(Append(events, CallMade("discovery", "search")),
             "discovery", "in_progress", stored[1]),
    "discovery", "completed", stored[2])

\* runDiscovery, lines 155-170
DiscoveryEvents(events, stored) ==
  LogStage(
    Append(LogStage(events, "discovery", "in_progress", stored[1]),
           CallMade("discovery", "search")),
    "discovery", "completed", stored[2])

GenerationEvents(events, result, stored) ==
  LogStage(
    Append(LogStage(events, "generation", "in_progress", stored[1]),
           CallMade("generation", "generate")),
    "generation", IF result.success THEN "completed" ELSE "failed", stored[2])

TestingCallEvents(events, stored) ==
  Append(LogStage(events, "testing", "in_progress", stored[1]),
         CallMade("testing", "sandbox.test"))

TestingEvents(events, results, stored) ==
  LogStage(TestingCallEvents(events, stored),
           "testing", IF results.passed THEN "completed" ELSE "failed", stored[2])

RegistrationCallEvents(events, stored) ==
  Append(LogStage(events, "registration", "in_progress", stored[1]),
         CallMade("registration", "createGeneratedTool"))

CatchBlockRethrows(toolName, evolutionId, events) ==
  [Response(StringArg(toolName), evolutionId, TRUE, FALSE, "", "exception", events)
     EXCEPT !.rejects = TRUE]

\* evolve, lines 135-149: what the catch block returns
CatchBlock(toolName, evolutionId, events) ==
  Response(StringArg(toolName), evolutionId, TRUE, FALSE, "unknown", "exception", events)

\* an evolve call returns: its run is gone and `returned` is its result
Return(evolutionId, response) ==
  /\ runs' = MapDelete(runs, evolutionId)
  /\ returned' = response

EvolveLockingBeforeCap(toolName) ==
  /\ ~blocked
  /\ FreeIds # {}
  /\ LET evolutionId == Uuidv4
         sanitizedName == SanitizedName(toolName.chars)
     IN IF NameRejected(toolName)
        THEN /\ returned' = Response(toolName, evolutionId, FALSE, FALSE, "",
                                 "Tool name is required", <<>>)
             /\ UNCHANGED << activeEvolutions, runs, dbFaults >>
        ELSE IF AlreadyInProgress(sanitizedName)
        THEN /\ returned' = Response(toolName, MapGet(activeEvolutions, sanitizedName),
                                 FALSE, FALSE, "", "Evolution already in progress", <<>>)
             /\ UNCHANGED << activeEvolutions, runs, dbFaults >>
        ELSE IF CapReached
        THEN /\ returned' = Response(toolName, evolutionId, FALSE, FALSE, "",
                                 "Maximum concurrent evolutions reached", <<>>)
             /\ activeEvolutions' = MapSet(activeEvolutions, sanitizedName, evolutionId)
             /\ UNCHANGED << runs, dbFaults >>
        ELSE \E stored \in StoreOutcomes(1) :
             /\ activeEvolutions' = MapSet(activeEvolutions, sanitizedName, evolutionId)
             /\ runs' = MapSet(runs, evolutionId,
                               Run(toolName.chars, "discovery", NoGeneration,
                                   NoTestResults, StartedEvents(<<>>, stored)))
             /\ dbFaults' = dbFaults - Failed(stored)
             /\ returned' = NoResponse
  /\ UNCHANGED << generatedToolRows, blocked, registryVars, sandboxTestVars >>

\* evolve(toolName), lines 39-75: up to the first await of an accepted call
Evolve(toolName) ==
  /\ ~blocked
  /\ FreeIds # {}
  /\ LET evolutionId == Uuidv4
         sanitizedName == SanitizedName(toolName.chars)
     IN IF NameRejected(toolName)
        THEN /\ returned' = Response(toolName, evolutionId, FALSE, FALSE, "",
                                 "Tool name is required", <<>>)
             /\ UNCHANGED << activeEvolutions, runs, dbFaults >>
        ELSE IF AlreadyInProgress(sanitizedName)
        THEN /\ returned' = Response(toolName, MapGet(activeEvolutions, sanitizedName),
                                 FALSE, FALSE, "", "Evolution already in progress", <<>>)
             /\ UNCHANGED << activeEvolutions, runs, dbFaults >>
        ELSE IF CapReached
        THEN /\ returned' = Response(toolName, evolutionId, FALSE, FALSE, "",
                                 "Maximum concurrent evolutions reached", <<>>)
             /\ UNCHANGED << activeEvolutions, runs, dbFaults >>
        ELSE \E stored \in StoreOutcomes(1) :
             /\ activeEvolutions' = MapSet(activeEvolutions, sanitizedName, evolutionId)
             /\ runs' = MapSet(runs, evolutionId,
                               Run(toolName.chars, "discovery", NoGeneration,
                                   NoTestResults, StartedEvents(<<>>, stored)))
             /\ dbFaults' = dbFaults - Failed(stored)
             /\ returned' = NoResponse
  /\ UNCHANGED << generatedToolRows, blocked, registryVars, sandboxTestVars >>

RunDiscoveryAbortingOnLostRow(evolutionId, finds) ==
  /\ ~blocked
  /\ MapHas(runs, evolutionId)
  /\ RunOf(evolutionId).pc = "discovery"
  /\ \E found \in finds, stored \in StoreOutcomes(2) :
       LET run == RunOf(evolutionId)
           githubResults == GitHubSearch(found[1])
           postmanResults == PostmanSearch(found[2])
           results == <<githubResults, postmanResults>>
       IN IF githubResults.throws \/ postmanResults.throws \/ ~stored[1]
          THEN /\ activeEvolutions' = ReleaseLock(run.toolName)
               /\ Return(evolutionId,
                         CatchBlock(run.toolName, evolutionId,
                           LogStage(LogStage(run.events, "discovery",
                                             "in_progress", stored[1]),
                                    "error", "failed", stored[2])))
               /\ dbFaults' = dbFaults - Failed(stored)
          ELSE /\ runs' = MapSet(runs, evolutionId,
                                 [run EXCEPT
                                    !.pc = "generation",
                                    !.discoveryResults = results,
                                    !.events = DiscoveryEvents(@, stored)])
               /\ dbFaults' = dbFaults - Failed(stored)
               /\ returned' = NoResponse
               /\ UNCHANGED activeEvolutions
  /\ UNCHANGED << generatedToolRows, script, blocked, registryVars, sandboxTestVars >>

\* runDiscovery, lines 152-173, and the catch block of evolve: both searches
\* are called before either is awaited; `finds` is what the two remote APIs
\* may give; a rejected search rejects Promise.all and ends the run in the
\* catch block
RunDiscovery(evolutionId, finds) ==
  /\ ~blocked
  /\ MapHas(runs, evolutionId)
  /\ RunOf(evolutionId).pc = "discovery"
  /\ \E found \in finds, stored \in StoreOutcomes(2) :
       LET run == RunOf(evolutionId)
           githubResults == GitHubSearch(found[1])
           postmanResults == PostmanSearch(found[2])
           results == <<githubResults, postmanResults>>
       IN IF githubResults.throws \/ postmanResults.throws
          THEN /\ activeEvolutions' = ReleaseLock(run.toolName)
               /\ Return(evolutionId,
                         CatchBlock(run.toolName, evolutionId,
                           LogStage(Append(LogStage(run.events, "discovery",
                                                    "in_progress", stored[1]),
                                           CallMade("discovery", "search")),
                                    "error", "failed", stored[2])))
               /\ dbFaults' = dbFaults - Failed(stored)
          ELSE /\ runs' = MapSet(runs, evolutionId,
                                 [run EXCEPT
                                    !.pc = "generation",
                                    !.discoveryResults = results,
                                    !.events = DiscoveryEvents(@, stored)])
               /\ dbFaults' = dbFaults - Failed(stored)
               /\ returned' = NoResponse
               /\ UNCHANGED activeEvolutions
  /\ UNCHANGED << generatedToolRows, script, blocked, registryVars, sandboxTestVars >>

\* runGeneration, lines 175-196, and evolve, lines 81-91; `completions` are
\* the answers the completion provider may give
RunGeneration(evolutionId, completions) ==
  /\ ~blocked
  /\ MapHas(runs, evolutionId)
  /\ RunOf(evolutionId).pc = "generation"
  /\ \E responses \in ProviderAnswers(completions), stored \in StoreOutcomes(3) :
       LET run == RunOf(evolutionId)
           generationResult == Generate(run.discoveryResults, responses)
           events == GenerationEvents(run.events, generationResult, stored)
       IN IF GenerationShortCircuits(generationResult)
          THEN /\ activeEvolutions' = ReleaseLock(run.toolName)
               /\ Return(evolutionId,
                         Response(StringArg(run.toolName), evolutionId, TRUE, FALSE,
                                  "generation", generationResult.error,
                                  LogStage(events, "generation", "failed", stored[3])))
               /\ dbFaults' = dbFaults - Failed(stored)
          ELSE /\ stored[3]
               /\ runs' = MapSet(runs, evolutionId,
                                 [run EXCEPT !.pc = "testing",
                                             !.generationResult = generationResult,
                                             !.events = events])
               /\ dbFaults' = dbFaults - Failed(stored)
               /\ returned' = NoResponse
               /\ UNCHANGED activeEvolutions
  /\ UNCHANGED << generatedToolRows, script, blocked, registryVars, sandboxTestVars >>

\* runTesting, lines 198-219, and evolve, lines 95-106
RunTesting(evolutionId) ==
  /\ ~blocked
  /\ MapHas(runs, evolutionId)
  /\ RunOf(evolutionId).pc = "testing"
  /\ \E stored \in StoreOutcomes(3) :
       LET run == RunOf(evolutionId)
           testResults == SandboxTest(run.generationResult.tool, <<>>)
           events == TestingEvents(run.events, testResults, stored)
       IN IF ~testResults.returns
          THEN /\ stored[2] /\ stored[3]
               /\ blocked' = TRUE
               /\ runs' = MapSet(runs, evolutionId,
                                 [run EXCEPT !.events = TestingCallEvents(@, stored)])
               /\ dbFaults' = dbFaults - Failed(stored)
               /\ returned' = NoResponse
               /\ UNCHANGED activeEvolutions
          ELSE IF TestingShortCircuits(testResults)
          THEN /\ activeEvolutions' = ReleaseLock(run.toolName)
               /\ Return(evolutionId,
                         Response(StringArg(run.toolName), evolutionId, TRUE, FALSE,
                                  "testing", "Tool failed sandbox testing",
                                  LogStage(events, "testing", "failed", stored[3])))
               /\ dbFaults' = dbFaults - Failed(stored)
               /\ UNCHANGED blocked
          ELSE /\ stored[3]
               /\ runs' = MapSet(runs, evolutionId,
                                 [run EXCEPT !.pc = "registration",
                                             !.testResults = testResults,
                                             !.events = events])
               /\ dbFaults' = dbFaults - Failed(stored)
               /\ returned' = NoResponse
               /\ UNCHANGED << activeEvolutions, blocked >>
  /\ UNCHANGED << generatedToolRows, script, registryVars, sandboxTestVars >>

\* runRegistration, lines 221-258, and the catch block of evolve, lines
\* 135-149; stored[2] is the outcome of the insert into generated_tools
RunRegistration(evolutionId) ==
  /\ ~blocked
  /\ MapHas(runs, evolutionId)
  /\ RunOf(evolutionId).pc = "registration"
  /\ \E stored \in StoreOutcomes(3) :
       LET run == RunOf(evolutionId)
           tool == run.generationResult.tool
           created == CreateGeneratedTool(generatedToolRows,
                        GeneratedToolData(tool.name, tool.handlerCode,
                          SourceType(run.generationResult.analysis)))
           events == RegistrationCallEvents(run.events, stored)
       IN IF stored[2] /\ created.ok
          THEN /\ generatedToolRows' = created.rows
               /\ runs' = MapSet(runs, evolutionId,
                                 [run EXCEPT
                                    !.pc = "completed",
                                    !.events = LogStage(events, "registration",
                                                        "completed", stored[3])])
               /\ dbFaults' = dbFaults - Failed(stored)
               /\ returned' = NoResponse
               /\ UNCHANGED activeEvolutions
          ELSE /\ activeEvolutions' = ReleaseLock(run.toolName)
               /\ Return(evolutionId,
                         CatchBlock(run.toolName, evolutionId,
                                    LogStage(events, "error", "failed", stored[3])))
               /\ dbFaults' = dbFaults - Failed(stored)
               /\ UNCHANGED generatedToolRows
  /\ UNCHANGED << script, blocked, registryVars, sandboxTestVars >>

\* evolve, lines 110-134: the completed row, the release and the return
Complete(evolutionId) ==
  /\ ~blocked
  /\ MapHas(runs, evolutionId)
  /\ RunOf(evolutionId).pc = "completed"
  /\ \E stored \in StoreOutcomes(1) :
       LET run == RunOf(evolutionId)
           registeredTool == CHOOSE row \in generatedToolRows :
                               row.name = run.generationResult.tool.name
       IN /\ activeEvolutions' = ReleaseLock(run.toolName)
          /\ Return(evolutionId,
                    [Response(StringArg(run.toolName), evolutionId, TRUE, TRUE, "", "",
                              LogStage(run.events, "completed", "success", stored[1]))
                       EXCEPT !.tool = registeredTool])
          /\ dbFaults' = dbFaults - Failed(stored)
  /\ UNCHANGED << generatedToolRows, script, blocked, registryVars, sandboxTestVars >>

\* ------------------------------------------------------------------ inputs
\* requested names: "x" is its own sanitized form, "X" is sanitized to "x"
ToolNames == { <<"x">>, <<"X">>, <<"y">> }
EvolveArgs == {StringArg(n) : n \in ToolNames \cup {<<>>}} \cup {NotAString}

\* names the completion provider gives the tools it writes
GeneratedNames == { <<"x">>, <<"y">> }

GoodCode == Code({}, TRUE, "function", "mcp", "mcp")
FetchingCode == Code({"fetch("}, TRUE, "function", "mcp", "mcp")
SpinningCode == Code({}, TRUE, "function", "spins", "spins")
SlowCode == Code({}, TRUE, "function", "mcp", "pending")
EnvReadingCode == Code({"process.env"}, TRUE, "function", "mcp", "mcp")
BrokenCode == Code({}, FALSE, "other", "throws", "throws")

\* what the remote APIs give when nothing matches the name and no Postman
\* API key is configured
NothingFound ==
  { << Found(FALSE, <<>>),
       PostmanFound(FALSE, Found(FALSE, <<>>), Found(FALSE, <<>>)) >> }

PipelineCodes == {GoodCode, FetchingCode, SpinningCode, SlowCode}

ProviderDown == Completion("unavailable", <<>>, FALSE, "undefined", EmptyCode)

Completions ==
  { ProviderDown, Completion("json", <<"x">>, TRUE, "object", EnvReadingCode) }
  \cup {Completion("json", n, TRUE, "object", c) : n \in GeneratedNames, c \in PipelineCodes}

\* ------------------------------------------------------------ specifications
RegistryIdle == generatedTools = {} /\ execs = <<>>
SandboxIdle == testInput = <<>> /\ testReport = <<>>

\* the built-in tools registered when the modules of src/tools are loaded
BuiltinNames == { <<"b">> }
ToolRegistryIdle ==
  builtinTools = BuiltinNames /\ autoEvolveEnabled = TRUE /\ calls = <<>>

GeneratorIdle == chatAnswers = <<>> /\ generated = <<>>

\* new DynamicToolRegistry(), part_010 lines 274-278: not initialized
ReloadIdle == initialized = FALSE /\ loads = <<>>
SampleIdle == sampledSchema = <<>> /\ defaultTestCases = <<>>
ScanIdle == scannedCode = <<>> /\ scanReport = <<>>
\* new LRUCache(maxSize), apiKeys.js lines 31-35
CacheIdle == cache = {} /\ accessOrder = <<>> /\ touched = <<>>
OtherIdle == ReloadIdle /\ SampleIdle /\ ScanIdle /\ CacheIdle

\* new ToolSandbox(), orchestrator.js line 25 and DynamicToolRegistry
TimeoutIdle ==
  /\ sandboxOption = NoTimeout
  /\ defaultTimeout = ConstructedTimeout(NoTimeout)
  /\ timers = <<>>

Init ==
  /\ activeEvolutions = {}
  /\ runs = {}
  /\ generatedToolRows = {}
  /\ returned = NoResponse
  /\ script = <<>>
  /\ blocked = FALSE
  /\ dbFaults = 0
  /\ RegistryIdle
  /\ SandboxIdle
  /\ ToolRegistryIdle
  /\ TimeoutIdle
  /\ toolCreationLogs = <<>>
  /\ OtherIdle
  /\ GeneratorIdle

\* one step of the accepted run evolutionId
RunStep(evolutionId) ==
  \/ RunDiscovery(evolutionId, NothingFound)
  \/ RunGeneration(evolutionId, Completions)
  \/ RunTesting(evolutionId)
  \/ RunRegistration(evolutionId)
  \/ Complete(evolutionId)

Next ==
  \/ \E toolName \in EvolveArgs :
       Evolve(toolName) /\ UNCHANGED << script, toolRegistryVars, timeoutVars, toolCreationLogs, generatorVars, otherVars >>
  \/ \E evolutionId \in Ids : RunStep(evolutionId) /\ UNCHANGED << toolRegistryVars, timeoutVars, toolCreationLogs, generatorVars, otherVars >>

Spec == Init /\ [][Next]_vars

\* A scripted client: it makes the calls of `script`, in order, at any time.
ScriptedEvolve ==
  /\ script # <<>>
  /\ Evolve(Head(script))
  /\ script' = Tail(script)

\* CapSpec: more distinct names are requested than the cap admits, while the
\* completion provider is down, so that every accepted run ends at generation;
\* "X" is a name whose lock is stored under "x"
CapNames == << <<"X">>, <<"q">>, <<"r">>, <<"s">>, <<"t">>, <<"u">> >>
CapScript ==
  [k \in 1..CapCalls |-> StringArg(CapNames[((k - 1) % Len(CapNames)) + 1])]

CapInit ==
  /\ activeEvolutions = {}
  /\ runs = {}
  /\ generatedToolRows = {}
  /\ returned = NoResponse
  /\ script = CapScript
  /\ blocked = FALSE
  /\ dbFaults = 0
  /\ RegistryIdle
  /\ SandboxIdle
  /\ ToolRegistryIdle
  /\ TimeoutIdle
  /\ toolCreationLogs = <<>>
  /\ OtherIdle
  /\ GeneratorIdle

CapNext ==
  \/ ScriptedEvolve /\ UNCHANGED << toolRegistryVars, timeoutVars, toolCreationLogs, generatorVars, otherVars >>
  \/ \E evolutionId \in Ids : RunDiscovery(evolutionId, NothingFound) /\ UNCHANGED << toolRegistryVars, timeoutVars, toolCreationLogs, generatorVars, otherVars >>
  \/ \E evolutionId \in Ids :
       RunGeneration(evolutionId, {ProviderDown}) /\ UNCHANGED << toolRegistryVars, timeoutVars, toolCreationLogs, generatorVars, otherVars >>

CapSpec == CapInit /\ [][CapNext]_vars

\* AuditSpec: the runs of a scripted client while calls of the durable store
\* may fail
AuditNames == << <<"X">>, <<"y">> >>
AuditScript ==
  [k \in 1..AuditCalls |-> StringArg(AuditNames[((k - 1) % Len(AuditNames)) + 1])]

AuditInit ==
  /\ activeEvolutions = {}
  /\ runs = {}
  /\ generatedToolRows = {}
  /\ returned = NoResponse
  /\ script = AuditScript
  /\ blocked = FALSE
  /\ dbFaults = MaxDbFaults
  /\ RegistryIdle
  /\ SandboxIdle
  /\ ToolRegistryIdle
  /\ TimeoutIdle
  /\ toolCreationLogs = <<>>
  /\ OtherIdle
  /\ GeneratorIdle

\* a row of tool_creation_logs; the table adds the serial id
ToolCreationLog(id, toolName, stage, status) ==
  [id |-> id, toolName |-> toolName, stage |-> stage, status |-> status]

LogToolCreationUpserting(rows, toolName, stage, status) ==
  IF \E i \in DOMAIN rows : rows[i].toolName = toolName /\ rows[i].stage = stage
  THEN [i \in DOMAIN rows |->
          IF rows[i].toolName = toolName /\ rows[i].stage = stage
          THEN [rows[i] EXCEPT !.status = status] ELSE rows[i]]
  ELSE Append(rows, ToolCreationLog(Len(rows) + 1, toolName, stage, status))

\* DatabaseStorage.logToolCreation: one insert
LogToolCreation(rows, toolName, stage, status) ==
  Append(rows, ToolCreationLog(Len(rows) + 1, toolName, stage, status))

\* the calls of logToolCreation that succeeded among the entries a step
\* added to a run's history, in order
RECURSIVE StoreRows(_, _, _)
StoreRows(rows, toolName, entries) ==
  IF entries = <<>> THEN rows
  ELSE StoreRows(IF Head(entries).kind = "log"
                 THEN LogToolCreation(rows, toolName, Head(entries).stage,
                                      Head(entries).status)
                 ELSE rows,
                 toolName, Tail(entries))

\* the history of a run before and after the step taken: a run that returns
\* hands its history to the caller
HistoryBefore(evolutionId) ==
  IF MapHas(runs, evolutionId) THEN RunOf(evolutionId).events ELSE <<>>
HistoryAfter(evolutionId) ==
  IF MapHas(runs', evolutionId) THEN MapGet(runs', evolutionId).events
  ELSE returned'.events
Stepped(evolutionId) ==
  /\ MapHas(runs, evolutionId) \/ MapHas(runs', evolutionId)
  /\ HistoryAfter(evolutionId) # HistoryBefore(evolutionId)

\* the effect of the step's logStage calls on the table
AuditTrail ==
  IF \E evolutionId \in Ids : Stepped(evolutionId)
  THEN LET evolutionId == CHOOSE id \in Ids : Stepped(id)
           toolName == IF MapHas(runs, evolutionId) THEN RunOf(evolutionId).toolName
                       ELSE MapGet(runs', evolutionId).toolName
       IN toolCreationLogs' =
            StoreRows(toolCreationLogs, toolName,
                      SubSeq(HistoryAfter(evolutionId),
                             Len(HistoryBefore(evolutionId)) + 1,
                             Len(HistoryAfter(evolutionId))))
  ELSE UNCHANGED toolCreationLogs

\* DatabaseStorage.getToolCreationLogs only selects: it is a stuttering step.
\* The table is followed in TrailSpec, where the client is scripted and the
\* table is bounded; elsewhere the histories of the runs stand for it.
AuditNext ==
  \/ ScriptedEvolve /\ UNCHANGED << toolRegistryVars, timeoutVars, toolCreationLogs, generatorVars, otherVars >>
  \/ \E evolutionId \in Ids :
       RunStep(evolutionId) /\ UNCHANGED << toolRegistryVars, timeoutVars, toolCreationLogs, generatorVars, otherVars >>

AuditSpec == AuditInit /\ [][AuditNext]_vars

\* TrailSpec: the table of tool_creation_logs while a scripted client asks
\* repeatedly for the same tool
TrailScript == [k \in 1..TrailCalls |-> StringArg(<<"x">>)]

TrailInit ==
  /\ activeEvolutions = {}
  /\ runs = {}
  /\ generatedToolRows = {}
  /\ returned = NoResponse
  /\ script = TrailScript
  /\ blocked = FALSE
  /\ dbFaults = 0
  /\ RegistryIdle
  /\ SandboxIdle
  /\ ToolRegistryIdle
  /\ TimeoutIdle
  /\ toolCreationLogs = <<>>
  /\ OtherIdle
  /\ GeneratorIdle

TrailNext ==
  \/ ScriptedEvolve /\ AuditTrail /\ UNCHANGED << toolRegistryVars, timeoutVars, generatorVars, otherVars >>
  \/ \E evolutionId \in Ids :
       RunStep(evolutionId) /\ AuditTrail /\ UNCHANGED << toolRegistryVars, timeoutVars, generatorVars, otherVars >>

TrailSpec == TrailInit /\ [][TrailNext]_vars

\* DiscoverySpec: one evolve call while the remote APIs of the two discovery
\* sources fail or give candidates of any relevance, with or without code
G1 == Candidate("g1", 9, TRUE)
G2 == Candidate("g2", 6, FALSE)
G3 == Candidate("g3", 2, TRUE)
P1 == Candidate("p1", 7, FALSE)
A1 == Candidate("a1", 10, FALSE)
A2 == Candidate("a2", 5, FALSE)

\* the lists of at most MaxFound distinct candidates of a set
Lists(candidates) ==
  {q \in UNION {[1..k -> candidates] : k \in 0..MaxFound} :
     \A i, j \in DOMAIN q : i # j => q[i] # q[j]}

Finds(candidates) ==
  {Found(TRUE, <<>>)} \cup {Found(FALSE, q) : q \in Lists(candidates)}

DiscoveryFinds ==
  {<<github, PostmanFound(apiKey, collections, publicApis)>> :
     github \in Finds({G1, G2, G3}), apiKey \in BOOLEAN,
     collections \in Finds({P1}), publicApis \in Finds({A1, A2})}

DiscoveryCompletions ==
  {ProviderDown, Completion("json", <<"x">>, TRUE, "object", GoodCode)}

DiscoveryInit ==
  /\ activeEvolutions = {}
  /\ runs = {}
  /\ generatedToolRows = {}
  /\ returned = NoResponse
  /\ script = <<StringArg(<<"x">>)>>
  /\ blocked = FALSE
  /\ dbFaults = 0
  /\ RegistryIdle
  /\ SandboxIdle
  /\ ToolRegistryIdle
  /\ TimeoutIdle
  /\ toolCreationLogs = <<>>
  /\ OtherIdle
  /\ GeneratorIdle

DiscoveryStep(evolutionId) ==
  \/ RunDiscovery(evolutionId, DiscoveryFinds)
  \/ RunGeneration(evolutionId, DiscoveryCompletions)
  \/ RunTesting(evolutionId)
  \/ RunRegistration(evolutionId)
  \/ Complete(evolutionId)

DiscoveryNext ==
  \/ ScriptedEvolve /\ UNCHANGED << toolRegistryVars, timeoutVars, toolCreationLogs, generatorVars, otherVars >>
  \/ \E evolutionId \in Ids :
       DiscoveryStep(evolutionId)
         /\ UNCHANGED << toolRegistryVars, timeoutVars, toolCreationLogs, generatorVars, otherVars >>

DiscoverySpec == DiscoveryInit /\ [][DiscoveryNext]_vars

\* the event loop runs every continuation that is ready, and the calls of the
\* provider, the sandbox and the store settle
DiscoveryFairSpec == DiscoverySpec /\ WF_vars(DiscoveryNext)

\* -------------------------------------------------------- DynamicToolRegistry
\* compileHandler, lines 330-345: evaluating "(" + handlerCode + ")" must
\* yield a function; the handler it returns calls sandbox.execute
CompileHandler(handlerCode) == handlerCode.syntax /\ handlerCode.value = "function"

\* one call of DynamicToolRegistry.execute: what it was asked and how far the
\* execution of the handler has come
Exec(toolName, found, handlerCode, args, execution) ==
  [toolName |-> toolName, found |-> found, handlerCode |-> handlerCode,
   args |-> args, execution |-> execution]

\* registerTool(toolData), lines 347-373
RegisterTool(toolData) ==
  /\ ~blocked
  /\ generatedTools' =
       IF CompileHandler(toolData.handlerCode)
       THEN MapSet(generatedTools, toolData.name, toolData.handlerCode)
       ELSE generatedTools
  /\ UNCHANGED << orchestratorVars, blocked, execs, sandboxTestVars >>

\* loadGeneratedTools, lines 296-328: every active row that compiles
LoadGeneratedTools ==
  /\ ~blocked
  /\ LET loaded == {row \in generatedToolRows :
                      row.status = "active" /\ CompileHandler(row.handlerCode)}
     IN generatedTools' =
          {e \in generatedTools : \A row \in loaded : row.name # e[1]}
          \cup {<<row.name, row.handlerCode>> : row \in loaded}
  /\ UNCHANGED << orchestratorVars, blocked, execs, sandboxTestVars >>

\* DynamicToolRegistry.execute(toolName, args), lines 405-426, with the
\* handler compileHandler made, up to the first suspension of the call
RegistryExecute(toolName, args) ==
  /\ ~blocked
  /\ Len(execs) < MaxExecCalls
  /\ IF ~MapHas(generatedTools, toolName)
     THEN /\ execs' = Append(execs,
                 Exec(toolName, FALSE, EmptyCode, args,
                      Execution(<<>>, "done", "", "Generated tool not found")))
          /\ UNCHANGED blocked
     ELSE LET handlerCode == MapGet(generatedTools, toolName)
              execution == SandboxExecute(handlerCode, args)
          IN /\ execs' = Append(execs, Exec(toolName, TRUE, handlerCode, args, execution))
             /\ blocked' = (execution.state = "running")
  /\ UNCHANGED << orchestratorVars, generatedTools, sandboxTestVars >>

\* the timer callback of ToolSandbox.execute, line 399, for the i-th call
TimerFires(i) ==
  /\ ~blocked
  /\ i \in DOMAIN execs
  /\ execs[i].execution.state = "waiting"
  /\ execs' = [execs EXCEPT ![i].execution = ExecutionTimeout(@)]
  /\ UNCHANGED << orchestratorVars, blocked, generatedTools, sandboxTestVars >>

\* ExecSpec: tools are registered and loaded and their handlers are called
ThrowingCode == Code({}, TRUE, "function", "throws", "mcp")
RegisteredCodes == {GoodCode, FetchingCode, SpinningCode, SlowCode, ThrowingCode, BrokenCode}
ToolData == [name : GeneratedNames, handlerCode : RegisteredCodes]

ExecInit ==
  /\ activeEvolutions = {}
  /\ runs = {}
  /\ generatedToolRows = {GeneratedToolRow(1, GeneratedToolData(<<"x">>, GoodCode, "ai-generated"))}
  /\ returned = NoResponse
  /\ script = <<>>
  /\ blocked = FALSE
  /\ dbFaults = 0
  /\ RegistryIdle
  /\ SandboxIdle
  /\ ToolRegistryIdle
  /\ TimeoutIdle
  /\ toolCreationLogs = <<>>
  /\ OtherIdle
  /\ GeneratorIdle

ExecNext ==
  \/ \E toolData \in ToolData : RegisterTool(toolData) /\ UNCHANGED << toolRegistryVars, timeoutVars, toolCreationLogs, generatorVars, otherVars >>
  \/ LoadGeneratedTools /\ UNCHANGED << toolRegistryVars, timeoutVars, toolCreationLogs, generatorVars, otherVars >>
  \/ \E toolName \in GeneratedNames, args \in InputKinds :
       RegistryExecute(toolName, args) /\ UNCHANGED << toolRegistryVars, timeoutVars, toolCreationLogs, generatorVars, otherVars >>
  \/ \E i \in 1..MaxExecCalls : TimerFires(i) /\ UNCHANGED << toolRegistryVars, timeoutVars, toolCreationLogs, generatorVars, otherVars >>

ExecSpec == ExecInit /\ [][ExecNext]_vars

\* --------------------------------------------------------------- ToolRegistry
\* the context argument of ToolRegistry.execute: autoEvolve is FALSE only when
\* the caller passed autoEvolve: false
Contexts == [autoEvolve : BOOLEAN]

\* what a call of ToolRegistry.execute settles with: a returned payload
\* (isError, and the reason and stage its text carries) or a thrown error
Returned(isError, reason, stage) ==
  [kind |-> "returned", isError |-> isError, reason |-> reason, stage |-> stage,
   statusCode |-> FALSE]
Thrown(message) ==
  [kind |-> "thrown", isError |-> FALSE, reason |-> message, stage |-> "",
   statusCode |-> FALSE]
Pending == [kind |-> "pending", isError |-> FALSE, reason |-> "", stage |-> "",
            statusCode |-> FALSE]

\* one call of ToolRegistry.execute: `route` is the branch it took, `pc` how
\* far it is, `exec` the index in execs of the call of
\* DynamicToolRegistry.execute it made (0: none)
Call(name, args, context, route, pc, evolutionId, evolved, exec, outcome) ==
  [name |-> name, args |-> args, context |-> context, route |-> route, pc |-> pc,
   evolutionId |-> evolutionId, evolved |-> evolved, exec |-> exec,
   outcome |-> outcome]

DispatchEvolveFirst(name, context) ==
  IF name \in builtinTools THEN "builtin"
  ELSE IF context.autoEvolve /\ autoEvolveEnabled THEN "evolve"
  ELSE IF MapHas(generatedTools, name) THEN "generated"
  ELSE "notfound"

\* ToolRegistry.execute, lines 74-102: the branch taken
Dispatch(name, context) ==
  IF name \in builtinTools THEN "builtin"
  ELSE IF MapHas(generatedTools, name) THEN "generated"
  ELSE IF context.autoEvolve /\ autoEvolveEnabled THEN "evolve"
  ELSE "notfound"

\* evolveAndExecute, lines 110-123: the payload for a failed evolution
EvolutionFailed(evolutionResult) ==
  Returned(TRUE, evolutionResult.error, evolutionResult.stage)

\* evolveAndExecute, lines 138-151: the payload the catch block returns
EvolutionError(message) == Returned(TRUE, message, "")

\* what the call of ToolRegistry.execute settles with once the call of
\* DynamicToolRegistry.execute it made has settled with `execution`:
\* execute passes result and error on (line 91), evolveAndExecute returns the
\* result and catches the error (lines 127-151)
SettledWith(route, execution) ==
  IF execution.state # "done" THEN Pending
  ELSE IF execution.error = "" THEN Returned(FALSE, "", "")
  ELSE IF route = "generated" THEN Thrown(execution.error)
  ELSE EvolutionError(execution.error)

Outcome(call) ==
  IF call.pc = "executing" THEN SettledWith(call.route, execs[call.exec].execution)
  ELSE call.outcome

\* a call of evolveAndExecute whose evolve call has just returned goes on
\* before any other request is served
ContinuationOf(k) ==
  /\ calls[k].pc = "awaiting"
  /\ returned.accepted
  /\ returned.evolutionId = calls[k].evolutionId
ContinuationPending == \E k \in DOMAIN calls : ContinuationOf(k)

\* ToolRegistry.execute(name, args, context), lines 74-102, and
\* evolveAndExecute up to the return of a rejected evolve call
ExecuteCall(name, args, context) ==
  /\ ~blocked
  /\ ~ContinuationPending
  /\ Len(calls) < MaxExecCalls
  /\ LET route == Dispatch(name, context)
     IN CASE route = "builtin" ->
               /\ calls' = Append(calls, Call(name, args, context, route, "done", 0,
                                               FALSE, 0, Returned(FALSE, "", "")))
               /\ UNCHANGED << orchestratorVars, blocked, registryVars, sandboxTestVars >>
          [] route = "generated" ->
               /\ RegistryExecute(name, args)
               /\ calls' = Append(calls, Call(name, args, context, route, "executing", 0,
                                               FALSE, Len(execs) + 1, Pending))
          [] route = "evolve" ->
               /\ Evolve(StringArg(name))
               /\ UNCHANGED script
               /\ calls' = Append(calls,
                    IF returned' # NoResponse
                    THEN Call(name, args, context, route, "done", 0, FALSE, 0,
                              EvolutionFailed(returned'))
                    ELSE Call(name, args, context, route, "awaiting", Uuidv4, FALSE, 0,
                              Pending))
          [] OTHER ->
               /\ calls' = Append(calls, Call(name, args, context, route, "done", 0,
                                               FALSE, 0, Thrown("Tool not found")))
               /\ UNCHANGED << orchestratorVars, blocked, registryVars, sandboxTestVars >>
  /\ UNCHANGED << builtinTools, autoEvolveEnabled >>

\* evolveAndExecute, lines 110-137, after the evolve call of the k-th call
\* has returned: the failure payload, or registerTool and
\* dynamicRegistry.execute under the requested name
EvolveReturns(k) ==
  /\ ~blocked
  /\ k \in DOMAIN calls
  /\ ContinuationOf(k)
  /\ LET call == calls[k]
         tool == returned.tool
         registered ==
           IF CompileHandler(tool.handlerCode)
           THEN MapSet(generatedTools, tool.name, tool.handlerCode)
           ELSE generatedTools
     IN IF ~returned.success
        THEN /\ calls' = [calls EXCEPT ![k].pc = "done",
                                       ![k].outcome = EvolutionFailed(returned)]
             /\ UNCHANGED << blocked, registryVars >>
        ELSE IF ~MapHas(registered, call.name)
        THEN /\ generatedTools' = registered
             /\ calls' = [calls EXCEPT
                            ![k].pc = "done", ![k].evolved = TRUE,
                            ![k].outcome = EvolutionError("Generated tool not found")]
             /\ UNCHANGED << blocked, execs >>
        ELSE LET execution == SandboxExecute(MapGet(registered, call.name), call.args)
             IN /\ generatedTools' = registered
                /\ execs' = Append(execs, Exec(call.name, TRUE,
                                               MapGet(registered, call.name),
                                               call.args, execution))
                /\ blocked' = (execution.state = "running")
                /\ calls' = [calls EXCEPT ![k].pc = "executing", ![k].evolved = TRUE,
                                          ![k].exec = Len(execs) + 1]
  /\ returned' = NoResponse
  /\ UNCHANGED << activeEvolutions, runs, generatedToolRows, script, dbFaults,
                  sandboxTestVars, builtinTools, autoEvolveEnabled >>

\* ToolRegistry.register(tool), lines 16-34
Register(name) ==
  /\ ~blocked
  /\ ~ContinuationPending
  /\ name # <<>>
  /\ builtinTools' = builtinTools \cup {name}
  /\ UNCHANGED << orchestratorVars, blocked, registryVars, sandboxTestVars,
                  autoEvolveEnabled, calls >>

\* ToolRegistry.setAutoEvolve(enabled)
SetAutoEvolve(enabled) ==
  /\ ~blocked
  /\ ~ContinuationPending
  /\ autoEvolveEnabled' = enabled
  /\ UNCHANGED << orchestratorVars, blocked, registryVars, sandboxTestVars,
                  builtinTools, calls >>

\* DispatchSpec: calls of ToolRegistry.execute, the evolutions they start and
\* the executions of the tools; the provider names the tools it writes
DispatchNames == { <<"b">>, <<"x">>, <<"y">> }
CallArgs == {"other"}
FlakyCode == [GoodCode EXCEPT !.run.other = "throws"]
StallingCode == [GoodCode EXCEPT !.run.other = "pending"]
DispatchCompletions ==
  { ProviderDown,
    Completion("json", <<"x">>, TRUE, "object", GoodCode),
    Completion("json", <<"x">>, TRUE, "object", FlakyCode),
    Completion("json", <<"x">>, TRUE, "object", StallingCode),
    Completion("json", <<"b">>, TRUE, "object", GoodCode),
    Completion("json", <<"x">>, TRUE, "object", FetchingCode) }

DispatchInit == Init

DispatchNext ==
  \/ \E name \in DispatchNames, args \in CallArgs, context \in Contexts :
       ExecuteCall(name, args, context) /\ UNCHANGED << timeoutVars, toolCreationLogs, generatorVars, otherVars >>
  \/ \E k \in 1..MaxExecCalls :
       EvolveReturns(k) /\ UNCHANGED << timeoutVars, toolCreationLogs, generatorVars, otherVars >>
  \/ \E evolutionId \in Ids :
       /\ ~ContinuationPending
       /\ \/ RunDiscovery(evolutionId, NothingFound)
          \/ RunGeneration(evolutionId, DispatchCompletions)
          \/ RunTesting(evolutionId)
          \/ RunRegistration(evolutionId)
          \/ Complete(evolutionId)
       /\ UNCHANGED << toolRegistryVars, timeoutVars, toolCreationLogs, generatorVars, otherVars >>
  \/ \E i \in 1..MaxExecCalls :
       ~ContinuationPending /\ TimerFires(i) /\ UNCHANGED << toolRegistryVars, timeoutVars, toolCreationLogs, generatorVars, otherVars >>
  \/ \E name \in {<<"x">>} :
       Register(name) /\ UNCHANGED << timeoutVars, toolCreationLogs, generatorVars, otherVars >>
  \/ \E enabled \in BOOLEAN :
       SetAutoEvolve(enabled) /\ UNCHANGED << timeoutVars, toolCreationLogs, generatorVars, otherVars >>

DispatchSpec == DispatchInit /\ [][DispatchNext]_vars

\* TestSpec: ToolSandbox.test applied to one tool and one list of test cases
TestTexts == { {}, {"fetch("}, {"setTimeout("}, {"WeakRef"}, {"WeakRef", "eval("} }
TestCodes ==
  {EmptyCode}
  \cup {Code(t, TRUE, "function", r, a) : t \in TestTexts, r \in Behaviours, a \in Behaviours}
  \cup {Code(t, TRUE, "other", "throws", "throws") : t \in TestTexts}
  \cup {Code(t, FALSE, "other", "throws", "throws") : t \in TestTexts}
TestTools ==
  {NullTool} \cup {Tool(<<"x">>, schema, c) : schema \in {"object", "undefined"},
                                               c \in TestCodes}
TestCaseLists == { <<>>, <<TestCase("given", "all", "payload")>> }

TestInit ==
  /\ activeEvolutions = {}
  /\ runs = {}
  /\ generatedToolRows = {}
  /\ returned = NoResponse
  /\ script = <<>>
  /\ blocked = FALSE
  /\ dbFaults = 0
  /\ RegistryIdle
  /\ testInput \in {<<tool, testCases>> : tool \in TestTools, testCases \in TestCaseLists}
  /\ testReport = <<>>
  /\ ToolRegistryIdle
  /\ TimeoutIdle
  /\ toolCreationLogs = <<>>
  /\ OtherIdle
  /\ GeneratorIdle

\* one call of ToolSandbox.test with the arguments drawn
RunSandboxTest ==
  /\ ~blocked
  /\ testReport = <<>>
  /\ testReport' = <<SandboxTest(testInput[1], testInput[2])>>
  /\ blocked' = ~testReport'[1].returns
  /\ UNCHANGED << orchestratorVars, registryVars, testInput >>

TestNext == RunSandboxTest /\ UNCHANGED << toolRegistryVars, timeoutVars, toolCreationLogs, generatorVars, otherVars >>

TestSpec == TestInit /\ [][TestNext]_vars

\* TimeoutSpec: a ToolSandbox is constructed with any timeout option and its
\* calls arm their timers
TimeoutOptions ==
  {NoTimeout} \cup {TimeoutOption(TRUE, ms) : ms \in {0, 1000, 5000, 30000, 30001, 60000}}

\* new ToolSandbox({ timeout }), lines 24-27
NewToolSandbox(option) ==
  /\ sandboxOption' = option
  /\ defaultTimeout' = ConstructedTimeout(option)
  /\ timers' = <<>>

\* ToolSandbox.execute(handlerCode, args, { timeout }): lines 370 and 398-402
ArmExecuteTimer(option) ==
  /\ Len(timers) < MaxTimers
  /\ timers' = Append(timers, Timer("execute", option, sandboxOption,
                                    ExecuteTimeout(option, defaultTimeout)))
  /\ UNCHANGED << sandboxOption, defaultTimeout >>

\* ToolSandbox.testExecution: lines 219-224
ArmTestTimer ==
  /\ Len(timers) < MaxTimers
  /\ timers' = Append(timers, Timer("testExecution", NoTimeout, sandboxOption,
                                    TestExecutionTimeout(defaultTimeout)))
  /\ UNCHANGED << sandboxOption, defaultTimeout >>

TimeoutInit ==
  /\ activeEvolutions = {}
  /\ runs = {}
  /\ generatedToolRows = {}
  /\ returned = NoResponse
  /\ script = <<>>
  /\ blocked = FALSE
  /\ dbFaults = 0
  /\ RegistryIdle
  /\ SandboxIdle
  /\ ToolRegistryIdle
  /\ toolCreationLogs = <<>>
  /\ OtherIdle
  /\ GeneratorIdle
  /\ \E option \in TimeoutOptions :
       /\ sandboxOption = option
       /\ defaultTimeout = ConstructedTimeout(option)
  /\ timers = <<>>

TimeoutNext ==
  /\ \/ \E option \in TimeoutOptions : NewToolSandbox(option)
     \/ \E option \in TimeoutOptions : ArmExecuteTimer(option)
     \/ ArmTestTimer
  /\ UNCHANGED << orchestratorVars, blocked, registryVars, sandboxTestVars,
                  toolRegistryVars, toolCreationLogs, generatorVars, otherVars >>

TimeoutSpec == TimeoutInit /\ [][TimeoutNext]_vars

\* GeneratorSpec: one call of generateToolCode while the provider gives any
\* answers, more of them than the call may ask for
GarbageAnswer == Completion("garbage", <<>>, FALSE, "undefined", EmptyCode)
IncompleteAnswer == Completion("json", <<"x">>, TRUE, "undefined", GoodCode)
UnsafeAnswer == Completion("json", <<"x">>, TRUE, "object", EnvReadingCode)
GoodAnswer == Completion("json", <<"x">>, TRUE, "object", GoodCode)
ChatAnswers == {ProviderDown, GarbageAnswer, IncompleteAnswer, UnsafeAnswer, GoodAnswer}

\* generateToolCode(toolName, analysis), lines 94-132: the prompt is built
\* once, before the loop; every attempt sends it and takes the next answer
RunGenerateToolCode(toolName, analysis) ==
  /\ ~blocked
  /\ generated = <<>>
  /\ LET prompt == BuildGenerationPrompt(toolName, analysis)
         generatedCode == GenerateToolCode(chatAnswers)
     IN /\ generated' =
             << [calls |-> [attempt \in 1..generatedCode.attempts |->
                             [prompt |-> prompt, response |-> chatAnswers[attempt]]],
                 prompt |-> prompt,
                 result |-> generatedCode] >>
        /\ chatAnswers' =
             SubSeq(chatAnswers, generatedCode.attempts + 1, Len(chatAnswers))
  /\ UNCHANGED << orchestratorVars, blocked, registryVars, sandboxTestVars,
                  toolRegistryVars, timeoutVars, toolCreationLogs, otherVars >>

GeneratorInit ==
  /\ activeEvolutions = {}
  /\ runs = {}
  /\ generatedToolRows = {}
  /\ returned = NoResponse
  /\ script = <<>>
  /\ blocked = FALSE
  /\ dbFaults = 0
  /\ RegistryIdle
  /\ SandboxIdle
  /\ ToolRegistryIdle
  /\ TimeoutIdle
  /\ toolCreationLogs = <<>>
  /\ OtherIdle
  /\ chatAnswers \in [1..MaxAnswers -> ChatAnswers]
  /\ generated = <<>>

GeneratorNext ==
  \E discoveryResults \in {<<GitHubSearch(Found(FALSE, <<>>))>>,
                            <<GitHubSearch(Found(FALSE, <<G1>>))>>} :
    RunGenerateToolCode(<<"x">>, AnalyzeDiscoveryResults(discoveryResults))

GeneratorSpec == GeneratorInit /\ [][GeneratorNext]_vars

\* ------------------------------------------------------------------ claims
RunsInFlight == {e[2] : e \in runs}
RunIds == MapKeys(runs)
Rejected == returned # NoResponse /\ ~returned.accepted

\* C1: a call for a name whose sanitized form belongs to a run in flight is
\* rejected at once with that run's evolutionId, starts no run and writes no
\* row; no two runs in flight have the same sanitized name.
C1_OneRunPerName ==
  /\ [](\A e1, e2 \in runs :
          SanitizedName(e1[2].toolName) = SanitizedName(e2[2].toolName) => e1 = e2)
  /\ [](\A e \in runs :
          (Rejected /\ ~NameRejected(returned.toolName)
             /\ SanitizedName(returned.toolName.chars) = SanitizedName(e[2].toolName))
          => /\ returned.error = "Evolution already in progress"
             /\ returned.evolutionId = e[1]
             /\ returned.events = <<>>)
  /\ [][returned' # NoResponse /\ ~returned'.accepted
          => runs' = runs /\ activeEvolutions' = activeEvolutions]_vars

C1_Witness ==
  /\ returned.error = "Evolution already in progress"
  /\ \E e \in runs : e[1] = returned.evolutionId /\ e[2].pc = "testing"

\* C2: when an accepted call returns, the entry made at its acceptance is no
\* longer in activeEvolutions.
C2_LockReleasedOnReturn ==
  returned.accepted => \A e \in activeEvolutions : e[2] # returned.evolutionId

\* C3: a run is at registration or beyond only if its generation succeeded
\* and its sandbox test passed; a row is created only by such a run, and a
\* run that returns a failure has created none.
C3_NoStageAfterFailure ==
  /\ [](\A run \in RunsInFlight :
          /\ run.pc \in {"testing", "registration", "completed"}
               => run.generationResult.success
          /\ run.pc \in {"registration", "completed"}
               => SandboxTest(run.generationResult.tool, <<>>).passed)
  /\ [][generatedToolRows' # generatedToolRows
          => \E e \in runs :
               /\ e[2].pc = "registration"
               /\ e[2].generationResult.success
               /\ SandboxTest(e[2].generationResult.tool, <<>>).passed
               /\ {row.name : row \in generatedToolRows' \ generatedToolRows}
                    = {e[2].generationResult.tool.name}]_vars
  /\ [][returned'.accepted /\ ~returned'.success
          => /\ generatedToolRows' = generatedToolRows
             /\ MapGet(runs, returned'.evolutionId).pc # "completed"]_vars

C3_Witness ==
  /\ returned.accepted /\ returned.success
  /\ generatedToolRows # {}

\* C4: at most one row of generated_tools with status active has a given
\* name, and a call rejected as a duplicate returns the evolutionId that
\* holds the name's lock.
C4_OneActiveRowPerName ==
  /\ \A r1, r2 \in generatedToolRows :
       (r1.name = r2.name /\ r1.status = "active" /\ r2.status = "active") => r1 = r2
  /\ returned.error = "Evolution already in progress"
       => <<SanitizedName(returned.toolName.chars), returned.evolutionId>>
            \in activeEvolutions

C4_Witness ==
  /\ returned.accepted /\ ~returned.success /\ returned.stage = "unknown"
  /\ \E row \in generatedToolRows : row.status = "active"
  /\ runs # {}

\* C5: when the security scan of the tool's handlerCode does not pass,
\* Sandbox.test returns passed = false, has not run the compilation step and
\* has attempted no execution test.
C5_FailedScanShortCircuits ==
  (testReport # <<>> /\ ~PerformSecurityScan(testInput[1].handlerCode).passed)
    => /\ testReport[1].returns
       /\ ~testReport[1].passed
       /\ testReport[1].compilationTest = "null"
       /\ testReport[1].executionTests = <<>>

C5_Witness ==
  /\ testReport # <<>>
  /\ testReport[1].error = "Security scan failed"
  /\ testInput[1].handlerCode.syntax
  /\ testInput[1].handlerCode.run["required"] = "spins"

\* C6: a call of a registered tool invokes the handler only after the scan
\* of the registered source, made in the same call, has passed; when the
\* scan fails the call ends with a security violation and the handler is
\* not invoked.
C6_ScanBeforeEveryInvocation ==
  \A i \in DOMAIN execs :
    LET exec == execs[i]
        trace == exec.execution.trace
    IN /\ (\E k \in DOMAIN trace : trace[k] = "invoke")
            => /\ exec.found
               /\ trace[1] = "scan"
               /\ PerformSecurityScan(exec.handlerCode).passed
       /\ (exec.found /\ ~PerformSecurityScan(exec.handlerCode).passed)
            => /\ exec.execution.state = "done"
               /\ exec.execution.error = "Security violation"
               /\ \A k \in DOMAIN trace : trace[k] # "invoke"

C6_Witness ==
  \E i \in DOMAIN execs :
    /\ execs[i].found
    /\ execs[i].handlerCode = FetchingCode
    /\ execs[i].execution.error = "Security violation"

\* C7: a call of Sandbox.execute that has not settled can still be ended by
\* its timer.
C7_TimerEndsExecute ==
  \A i \in DOMAIN execs :
    execs[i].execution.state # "done" => ENABLED TimerFires(i)

\* C8: every accepted run can still take the step that brings it nearer to
\* its return.
C8_AcceptedRunCanReturn == \A e \in runs : ENABLED RunStep(e[1])

\* C9: at most 5 evolutions are in flight; a call for a name not in flight
\* made while 5 are in flight is rejected at once with the cap error, and no
\* run exists that was not accepted.
C9_CapOnEvolutions ==
  /\ [](MapSize(activeEvolutions) <= 5 /\ Cardinality(runs) <= 5)
  /\ [](\A e \in runs : \E a \in activeEvolutions : a[2] = e[1])
  /\ [](returned.error = "Maximum concurrent evolutions reached"
          => returned.events = <<>> /\ returned.evolutionId \notin RunIds)
  /\ [][(/\ script' # script
         /\ ~NameRejected(Head(script))
         /\ ~MapHas(activeEvolutions, SanitizedName(Head(script).chars))
         /\ MapSize(activeEvolutions) >= 5)
          => /\ returned'.error = "Maximum concurrent evolutions reached"
             /\ runs' = runs
             /\ activeEvolutions' = activeEvolutions]_vars

C9_Witness ==
  /\ returned.error = "Maximum concurrent evolutions reached"
  /\ Cardinality(runs) = 5

\* the histories of the runs in flight and of the run that just returned
Histories == {run.events : run \in RunsInFlight} \cup {returned.events}

StageRank(stage) ==
  CASE stage = "started" -> 1
    [] stage = "discovery" -> 2
    [] stage = "generation" -> 3
    [] stage = "testing" -> 4
    [] stage = "registration" -> 5
    [] stage = "completed" -> 6
    [] OTHER -> 7

RowsInStageOrder(h) ==
  \A i, j \in DOMAIN h :
    (i < j /\ h[i].kind = "log" /\ h[j].kind = "log")
      => StageRank(h[i].stage) <= StageRank(h[j].stage)

\* C10 as stated: the rows of a run are in stage order, the started row is
\* the first entry of its history, and every call of a stage's work comes
\* after the inserted in_progress row of that stage.
C10_RowInsertedOnEntry ==
  \A h \in Histories :
    /\ RowsInStageOrder(h)
    /\ h # <<>> => h[1] = LogRow("started", "in_progress")
    /\ \A j \in DOMAIN h :
         h[j].kind = "call"
           => \E i \in 1..(j - 1) : h[i] = LogRow(h[j].stage, "in_progress")

\* C10 amended: the same, where the in_progress row of a stage is inserted
\* before the stage's work unless the store refused that insert
C10_RowAttemptedOnEntry ==
  \A h \in Histories :
    /\ RowsInStageOrder(h)
    /\ h # <<>> => h[1] \in {LogRow("started", "in_progress"),
                              LostRow("started", "in_progress")}
    /\ \A j \in DOMAIN h :
         h[j].kind = "call"
           => \E i \in 1..(j - 1) :
                h[i] \in {LogRow(h[j].stage, "in_progress"),
                          LostRow(h[j].stage, "in_progress")}

C10_Witness ==
  /\ returned.success
  /\ \E i \in DOMAIN returned.events : returned.events[i].kind = "lost"
  /\ \E i \in DOMAIN returned.events :
       returned.events[i] = LogRow("completed", "success")

C12_FailedRunHasErrorRow ==
  (returned.accepted /\ ~returned.success)
    => \E i \in DOMAIN returned.events : returned.events[i] = LogRow("error", "failed")

\* C13: a call of ToolRegistry.execute runs the built-in tool of the name if
\* there is one, else the generated tool of the name if there is one, and
\* calls evolve only when the name is in neither map, the context does not
\* say autoEvolve: false and the flag is on; evolve is called in no other case.
C13_DispatchOrder ==
  [][Len(calls') > Len(calls)
       => LET call == calls'[Len(calls')]
              isBuiltin == call.name \in builtinTools
              isGenerated == MapHas(generatedTools, call.name)
          IN /\ isBuiltin => call.route = "builtin"
             /\ (~isBuiltin /\ isGenerated) => call.route = "generated"
             /\ call.route = "evolve"
                  <=> (~isBuiltin /\ ~isGenerated
                       /\ call.context.autoEvolve /\ autoEvolveEnabled)
             /\ (runs' # runs \/ returned' # returned) => call.route = "evolve"]_vars

C13_Witness ==
  \E j, k \in DOMAIN calls :
    /\ j < k
    /\ calls[j].route = "evolve" /\ calls[j].evolved
    /\ calls[k].name = calls[j].name
    /\ calls[k].route = "generated"
    /\ calls[k].context.autoEvolve /\ autoEvolveEnabled

\* C14: after the evolution a call started has succeeded, the generated map
\* has a tool under the requested name and the call has executed it.
C14_EvolvedToolServesTheCall ==
  \A k \in DOMAIN calls :
    calls[k].evolved
      => MapHas(generatedTools, calls[k].name) /\ calls[k].exec # 0

\* C15: a call whose evolution failed returns a payload with isError that
\* carries the failure stage and the failure reason.
C15_FailurePayloadHasStageAndReason ==
  \A k \in DOMAIN calls :
    (calls[k].route = "evolve" /\ calls[k].pc = "done" /\ ~calls[k].evolved)
      => /\ calls[k].outcome.kind = "returned"
         /\ calls[k].outcome.isError
         /\ calls[k].outcome.reason # ""
         /\ calls[k].outcome.stage # ""

\* C16: a call routed to a registered generated tool whose execution fails
\* returns a payload with isError, or throws an error with a statusCode.
C16_ExecutionFailureIsAPayload ==
  \A k \in DOMAIN calls :
    (calls[k].route = "generated" /\ calls[k].pc = "executing"
       /\ execs[calls[k].exec].execution.state = "done"
       /\ execs[calls[k].exec].execution.error # "")
      => \/ Outcome(calls[k]).kind = "returned" /\ Outcome(calls[k]).isError
         \/ Outcome(calls[k]).kind = "thrown" /\ Outcome(calls[k]).statusCode

\* C17: no name is at once the name of a built-in tool and the name of a
\* row of generated_tools or of an entry of the generated map.
C17_NamesGloballyUnique ==
  builtinTools \cap ({row.name : row \in generatedToolRows} \cup MapKeys(generatedTools))
    = {}

\* C18: when a pattern of the scanner's deny-list matches the handler source,
\* the scan of the report does not pass.
C18_MatchedPatternFailsScan ==
  (testReport # <<>>
     /\ \E i \in DOMAIN dangerousPatterns :
          PatternTest(dangerousPatterns[i], testInput[1].handlerCode))
    => ~testReport[1].securityScan.passed

\* the network-access constructs of the scanner's deny-list
NetworkConstructs ==
  {"fetch(", "XMLHttpRequest", "WebSocket", "http.", "https.", "net.", "dns."}

\* C19: no run gets past generation with a handlerCode that contains a
\* network-access construct.
C19_NetworkCodeStopsAtGeneration ==
  \A run \in RunsInFlight :
    run.generationResult.success
      => run.generationResult.tool.handlerCode.text \cap NetworkConstructs = {}

\* C20: an execution test whose handler call settled with something that is
\* not a payload with a text content item has not passed, and neither has
\* the report.
C20_NonPayloadResultFailsTest ==
  testReport # <<>>
    => LET tool == testInput[1]
           report == testReport[1]
           effectiveTestCases ==
             IF Len(testInput[2]) > 0 THEN testInput[2]
             ELSE GenerateDefaultTestCases(tool.inputSchema)
       IN \A i \in DOMAIN report.executionTests :
            (report.executionTests[i].invoked
               /\ tool.handlerCode.run[effectiveTestCases[i].input] \in {"object", "nothing"})
              => ~report.executionTests[i].passed /\ ~report.passed

\* C21: once a call of execute has failed with the timeout error, the
\* handler it called is no longer live.
C21_TimedOutHandlerIsTerminated ==
  \A i \in DOMAIN execs :
    execs[i].execution.error = "Execution timeout - code took too long to execute"
      => execs[i].execution.handler # "live"

\* C22: the delay of every timer armed by execute or testExecution is at
\* most MAX_TIMEOUT (30,000 ms), and it is DEFAULT_TIMEOUT (5,000 ms) when
\* neither the constructor nor the call was given a timeout.
C22_TimeoutWithinCeiling ==
  \A i \in DOMAIN timers :
    /\ timers[i].timeout <= MAX_TIMEOUT
    /\ (~timers[i].option.given /\ ~timers[i].sandboxTimeout.given)
         => timers[i].timeout = DEFAULT_TIMEOUT

\* the rows of `before` are the first rows of `after`, unchanged
IsPrefix(before, after) ==
  /\ Len(before) <= Len(after)
  /\ \A i \in DOMAIN before : after[i] = before[i]

\* C24: every step leaves the rows already in tool_creation_logs in place
\* and unchanged; the table only grows at its end.
C24_LogIsAppendOnly == [][IsPrefix(toolCreationLogs, toolCreationLogs')]_vars

\* rows of two runs of the same tool, the second of which has passed the
\* stage the first one ended at
C24_Witness ==
  \E i, j \in DOMAIN toolCreationLogs :
    /\ i < j
    /\ toolCreationLogs[i].stage = "generation" /\ toolCreationLogs[i].status = "failed"
    /\ toolCreationLogs[j].stage = "generation" /\ toolCreationLogs[j].status = "completed"

\* the searches of a run found no candidate at all
ZeroResults(run) ==
  run.pc # "discovery" /\ AllResults(run.discoveryResults) = <<>>

\* C23: a run whose discovery found nothing goes on to generation, its
\* generation is analysed as 'ai-generated', and once its tool has passed
\* generation and the sandbox tests the run leads to an active row of
\* sourceType 'ai-generated' for the tool.
C23_ZeroResultsEndAiGenerated ==
  /\ [](\A run \in RunsInFlight :
          (ZeroResults(run) /\ run.generationResult.success)
            => run.generationResult.analysis.suggestedApproach = "ai-generated")
  /\ ((\E run \in RunsInFlight : ZeroResults(run) /\ run.pc = "registration")
        ~> (\E row \in generatedToolRows :
              /\ row.name = <<"x">>
              /\ row.status = "active"
              /\ row.sourceType = "ai-generated"))

\* the call has returned the active 'ai-generated' row of a run that found
\* nothing
C23_Witness ==
  /\ returned.success
  /\ returned.tool.status = "active"
  /\ returned.tool.sourceType = "ai-generated"
  /\ \A i \in DOMAIN returned.events : returned.events[i].kind # "lost"

\* C27: the references of an analysis are the three candidates of highest
\* relevanceScore of both sources, in descending order, and the approach is
\* 'adapt-existing' exactly when one of the references carries a code excerpt.
C27_ReferencesAndApproach ==
  \A run \in RunsInFlight :
    run.generationResult.success
      => LET candidates == AllResults(run.discoveryResults)
             analysis == run.generationResult.analysis
             references == analysis.references
             Referenced(c) == \E i \in DOMAIN references : references[i] = c
         IN /\ Len(references) = Min(3, Len(candidates))
            /\ \A i \in DOMAIN references :
                 \E j \in DOMAIN candidates : candidates[j] = references[i]
            /\ \A i, j \in DOMAIN references :
                 i < j => references[i].relevanceScore >= references[j].relevanceScore
            /\ \A j \in DOMAIN candidates :
                 ~Referenced(candidates[j])
                   => \A i \in DOMAIN references :
                        references[i].relevanceScore >= candidates[j].relevanceScore
            /\ analysis.suggestedApproach =
                 IF \E i \in DOMAIN references : references[i].toolImplementation
                 THEN "adapt-existing" ELSE "ai-generated"

\* C28: a run that is in its discovery stage leaves it for the generation
\* stage, whatever the two sources give or fail to give, and a source that
\* failed contributes no candidate.
C28_DiscoveryNeverAborts ==
  [][\A evolutionId \in Ids :
       (MapHas(runs, evolutionId) /\ RunOf(evolutionId).pc = "discovery"
          /\ runs' # runs)
         => /\ MapHas(runs', evolutionId)
            /\ MapGet(runs', evolutionId).pc = "generation"
            /\ Len(MapGet(runs', evolutionId).discoveryResults) = 2
            /\ \A i \in 1..2 :
                 MapGet(runs', evolutionId).discoveryResults[i].error
                   => MapGet(runs', evolutionId).discoveryResults[i].results = <<>>]_vars

\* GitHub failed, the public directory answered, and the run has generated
\* its tool from the directory's candidates
C28_Witness ==
  \E run \in RunsInFlight :
    /\ run.pc = "testing"
    /\ run.discoveryResults[1].error
    /\ run.discoveryResults[2].results # <<>>
    /\ run.generationResult.analysis.references = AllResults(<<run.discoveryResults[2]>>)

\* C25: a call with a name is rejected only when a run of the same
\* sanitized name is in flight or when 5 runs are in flight; runs of other
\* names never cause a rejection.
C25_OtherNamesNeverBlock ==
  (Rejected /\ ~NameRejected(returned.toolName))
    => \/ \E run \in RunsInFlight :
            SanitizedName(run.toolName) = SanitizedName(returned.toolName.chars)
       \/ Cardinality(runs) >= MAX_CONCURRENT_EVOLUTIONS

\* a response that parses, has all required fields and passes the security
\* check of the generator
ValidResponse(response) ==
  /\ response.kind = "json"
  /\ response.name # <<>> /\ response.description
  /\ response.inputSchema # "undefined" /\ ~response.handlerCode.empty
  /\ ValidateHandlerSecurity(response.handlerCode).safe

\* C26: one call of generateToolCode calls the provider at most 3 times,
\* always with the same prompt; no call follows a valid response, whose tool
\* is the result; a call that fails has made 3 calls and reports the reason
\* of the third.
C26_AtMostThreeAttempts ==
  generated # <<>>
    => LET chats == generated[1].calls
           result == generated[1].result
       IN /\ Len(chats) >= 1 /\ Len(chats) <= 3
          /\ \A i \in DOMAIN chats : chats[i].prompt = generated[1].prompt
          /\ \A i \in DOMAIN chats : i < Len(chats) => ~ValidResponse(chats[i].response)
          /\ result.success = ValidResponse(chats[Len(chats)].response)
          /\ result.success
               => result.tool.handlerCode = chats[Len(chats)].response.handlerCode
          /\ ~result.success
               => /\ Len(chats) = 3
                  /\ result.error = Attempt(chats[3].response).error

\* three failed attempts with three different reasons, the last of which is
\* reported, while the provider had a valid answer ready for a fourth call
C26_Witness ==
  /\ generated # <<>>
  /\ ~generated[1].result.success
  /\ generated[1].calls[1].response = ProviderDown
  /\ generated[1].calls[2].response = GarbageAnswer
  /\ generated[1].calls[3].response = UnsafeAnswer
  /\ generated[1].result.error = "Security validation failed"
  /\ chatAnswers = <<GoodAnswer>>

\* C29: every call of Sandbox.test comes back with a report; a missing
\* handlerCode, a failed scan, a compile error, a handler that throws or
\* that does not settle in time, and a missing inputSchema all give a report
\* that has not passed, and a compile error is reported by compilationTest.
C29_TestAlwaysReports ==
  testReport # <<>>
    => LET tool == testInput[1]
           report == testReport[1]
       IN /\ report.returns
          /\ (tool.isNull \/ tool.handlerCode.empty) => ~report.passed
          /\ ~report.securityScan.passed => ~report.passed
          /\ (report.securityScan.passed /\ ~tool.handlerCode.syntax)
               => ~report.passed /\ report.compilationTest = "failed"
          /\ (\E i \in DOMAIN report.executionTests :
                report.executionTests[i].error # "")
               => ~report.passed

\* the tests the report says were run, and whether the test cases of the
\* call could be determined
TestsRun(report) == Len(report.executionTests)
TestCasesKnown(tool, testCases) ==
  Len(testCases) > 0 \/ tool.inputSchema # "undefined"

MaxProps == 2

\* JavaScript values, as far as generateSampleValue makes them
JsValue(kind, str, num, bool, elems, fields) ==
  [kind |-> kind, str |-> str, num |-> num, bool |-> bool,
   elems |-> elems, fields |-> fields]
Undefined == JsValue("undefined", "", 0, FALSE, <<>>, {})
Str(s) == JsValue("string", s, 0, FALSE, <<>>, {})
Num(n) == JsValue("number", "", n, FALSE, <<>>, {})
Bool(b) == JsValue("boolean", "", 0, b, <<>>, {})
Arr(elems) == JsValue("array", "", 0, FALSE, elems, {})
Obj(fields) == JsValue("object", "", 0, FALSE, <<>>, fields)

\* the truthiness of a value, as `if (v)` and `v || w` take it
Truthy(v) ==
  CASE v.kind = "undefined" -> FALSE
    [] v.kind = "string" -> v.str # ""
    [] v.kind = "number" -> v.num # 0
    [] v.kind = "boolean" -> v.bool
    [] OTHER -> TRUE

\* a property schema: enum is <<>> when absent and <<values>> when given,
\* items is <<>> or <<schema>>, properties is <<>> or <<Map name -> schema>>
Schema(type, enum, default, minimum, items, properties) ==
  [type |-> type, enum |-> enum, default |-> default, minimum |-> minimum,
   items |-> items, properties |-> properties]

\* schema.enum[0]
FirstOf(values) == IF values = <<>> THEN Undefined ELSE Head(values)

GenerateSampleValueUntyped(schema) == Str("test")

\* generateSampleValue(schema), lines 315-343; schema is <<>> for undefined
RECURSIVE GenerateSampleValue(_)
GenerateSampleValue(schema) ==
  IF schema = <<>> THEN Str("test")
  ELSE LET s == schema[1]
       IN CASE s.type = "string" ->
                 IF s.enum # <<>> THEN FirstOf(s.enum[1])
                 ELSE IF Truthy(s.default) THEN s.default
                 ELSE Str("test_value")
            [] s.type \in {"integer", "number"} ->
                 IF Truthy(s.default) THEN s.default
                 ELSE IF Truthy(s.minimum) THEN s.minimum ELSE Num(1)
            [] s.type = "boolean" ->
                 IF s.default.kind = "undefined" THEN Bool(TRUE) ELSE s.default
            [] s.type = "array" -> Arr(<<GenerateSampleValue(s.items)>>)
            [] s.type = "object" ->
                 Obj({<<e[1], GenerateSampleValue(<<e[2]>>)>> :
                        e \in (IF s.properties = <<>> THEN {} ELSE s.properties[1])})
            [] OTHER -> Str("test")

\* properties[prop]
PropertyOf(properties, prop) ==
  IF MapHas(properties, prop) THEN <<MapGet(properties, prop)>> ELSE <<>>

\* the loop over `required`, lines 296-298
RECURSIVE MinimalInput(_, _, _)
MinimalInput(minimalInput, properties, required) ==
  IF required = <<>> THEN minimalInput
  ELSE MinimalInput(
         MapSet(minimalInput, Head(required),
                GenerateSampleValue(PropertyOf(properties, Head(required)))),
         properties, Tail(required))

\* the loop over Object.entries(properties), lines 305-307
FullInput(properties) ==
  {<<e[1], GenerateSampleValue(<<e[2]>>)>> : e \in properties}

\* inputSchema: properties and required are <<>> when absent
InputSchema(properties, required) ==
  [properties |-> properties, required |-> required]

\* generateDefaultTestCases(inputSchema), lines 290-313, with the inputs it
\* builds; GenerateDefaultTestCases keeps of them only which of the two it is
GenerateDefaultTestCaseInputs(inputSchema) ==
  LET properties == IF inputSchema.properties = <<>> THEN {}
                    ELSE inputSchema.properties[1]
      required == IF inputSchema.required = <<>> THEN <<>>
                  ELSE inputSchema.required[1]
  IN << TestCase("minimal_required_params",
                 MinimalInput({}, properties, required), "success"),
        TestCase("all_params", FullInput(properties), "success") >>

\* SampleSpec: generateDefaultTestCases applied to one inputSchema
PlainSchema(type) == Schema(type, <<>>, Undefined, Undefined, <<>>, <<>>)
PropSchemas ==
  { PlainSchema("string"), PlainSchema("integer"), PlainSchema("boolean"),
    PlainSchema("undefined"),
    Schema("string", << <<Str("e1"), Str("e2")>> >>, Str("d"), Undefined, <<>>, <<>>),
    Schema("string", << <<>> >>, Undefined, Undefined, <<>>, <<>>),
    Schema("string", <<>>, Str("d"), Undefined, <<>>, <<>>),
    Schema("string", <<>>, Str(""), Undefined, <<>>, <<>>),
    Schema("number", <<>>, Num(0), Num(5), <<>>, <<>>),
    Schema("number", <<>>, Num(7), Num(5), <<>>, <<>>),
    Schema("boolean", <<>>, Bool(FALSE), Undefined, <<>>, <<>>),
    Schema("array", <<>>, Undefined, Undefined, <<PlainSchema("string")>>, <<>>),
    Schema("array", <<>>, Undefined, Undefined, <<>>, <<>>),
    Schema("object", <<>>, Undefined, Undefined, <<>>,
           << {<<"k", PlainSchema("string")>>} >>),
    Schema("object", <<>>, Undefined, Undefined, <<>>, <<>>) }

PropNamePool == <<"a", "b", "c", "d">>
PropNames == {PropNamePool[i] : i \in 1..MaxProps}
PropertyMaps ==
  UNION {{ {<<n, f[n]>> : n \in names} : f \in [names -> PropSchemas]} :
           names \in SUBSET PropNames}
RequiredLists ==
  { <<>>, <<"a">>, <<"b", "a">>, <<"a", "a">>, <<"z">> }
InputSchemas ==
  {InputSchema(<<>>, <<>>), InputSchema(<<>>, << <<"a">> >>)}
  \cup {InputSchema(<<p>>, <<>>) : p \in PropertyMaps}
  \cup {InputSchema(<<p>>, <<r>>) : p \in PropertyMaps, r \in RequiredLists}

RunGenerateDefaultTestCases ==
  /\ defaultTestCases = <<>>
  /\ defaultTestCases' = <<GenerateDefaultTestCaseInputs(sampledSchema[1])>>
  /\ UNCHANGED << orchestratorVars, blocked, registryVars, sandboxTestVars,
                  toolRegistryVars, timeoutVars, toolCreationLogs, generatorVars,
                  reloadVars, sampledSchema, scanVars, cacheVars >>

SampleInit ==
  /\ activeEvolutions = {}
  /\ runs = {}
  /\ generatedToolRows = {}
  /\ returned = NoResponse
  /\ script = <<>>
  /\ blocked = FALSE
  /\ dbFaults = 0
  /\ RegistryIdle
  /\ SandboxIdle
  /\ ToolRegistryIdle
  /\ TimeoutIdle
  /\ toolCreationLogs = <<>>
  /\ GeneratorIdle
  /\ ReloadIdle /\ ScanIdle /\ CacheIdle
  /\ sampledSchema \in {<<inputSchema>> : inputSchema \in InputSchemas}
  /\ defaultTestCases = <<>>

SampleNext == RunGenerateDefaultTestCases

SampleSpec == SampleInit /\ [][SampleNext]_vars

\* the names in a list
Range(list) == {list[i] : i \in DOMAIN list}

\* C31: the call returns exactly two test cases; the input of the first has
\* exactly the names listed in required as its keys and the input of the
\* second exactly the names of properties; the value of a key is the sample
\* of the schema properties has for it: 'test_value' for a string schema
\* without enum and without a usable default, the first enum value or the
\* default otherwise, and a value of the schema's type for the other types.
C31_TwoDefaultTestCases ==
  defaultTestCases # <<>> =>
    LET inputSchema == sampledSchema[1]
        properties == IF inputSchema.properties = <<>> THEN {}
                      ELSE inputSchema.properties[1]
        required == IF inputSchema.required = <<>> THEN <<>>
                    ELSE inputSchema.required[1]
        testCases == defaultTestCases[1]
        Derived(input, key) ==
          /\ MapHas(properties, key) =>
               LET s == MapGet(properties, key)
                   v == MapGet(input, key)
               IN CASE s.type = "string" /\ s.enum = <<>> /\ ~Truthy(s.default) ->
                         v = Str("test_value")
                    [] s.type = "string" /\ s.enum = <<>> -> v = s.default
                    [] s.type = "string" -> v = FirstOf(s.enum[1])
                    [] s.type \in {"integer", "number"} ->
                         v.kind = "number" /\ v \in {s.default, s.minimum, Num(1)}
                    [] s.type = "boolean" -> v.kind = "boolean"
                    [] s.type = "array" -> v.kind = "array" /\ Len(v.elems) = 1
                    [] s.type = "object" ->
                         /\ v.kind = "object"
                         /\ MapKeys(v.fields) =
                              (IF s.properties = <<>> THEN {}
                               ELSE MapKeys(s.properties[1]))
                    [] OTHER -> v = Str("test")
          /\ ~MapHas(properties, key) => MapGet(input, key) = Str("test")
    IN /\ Len(testCases) = 2
       /\ MapKeys(testCases[1].input) = Range(required)
       /\ MapKeys(testCases[2].input) = MapKeys(properties)
       /\ \A i \in 1..2 :
            /\ \A key \in MapKeys(testCases[i].input) : Derived(testCases[i].input, key)
            /\ \A e1, e2 \in testCases[i].input : e1[1] = e2[1] => e1 = e2

\* the schema of the spec's scenario: required text, a plain string
C31_Witness ==
  /\ sampledSchema =
       << InputSchema(<< {<<"a", PlainSchema("string")>>,
                          <<"b", PlainSchema("integer")>>} >>, << <<"a">> >>) >>
  /\ defaultTestCases # <<>>
  /\ defaultTestCases[1][1].input = {<<"a", Str("test_value")>>}
  /\ defaultTestCases[1][2].input =
       {<<"a", Str("test_value")>>, <<"b", Num(1)>>}


\* ------------------------------------------------------- the scan alone
\* the number of deny-listed constructs in a scanned source at most
MaxConstructs == 2

\* ScanSpec: performSecurityScan applied to one source: the empty string (or
\* a value that is not a string) or a text with some deny-listed constructs
RECURSIVE TextsUpTo(_)
TextsUpTo(n) ==
  IF n = 0 THEN { {} }
  ELSE TextsUpTo(n - 1) \cup {t \cup {c} : t \in TextsUpTo(n - 1), c \in Constructs}
ScannedTexts == TextsUpTo(MaxConstructs)
ScannedCodes ==
  {EmptyCode} \cup {Code(t, TRUE, "function", "mcp", "mcp") : t \in ScannedTexts}

RunPerformSecurityScan ==
  /\ scanReport = <<>>
  /\ scanReport' = <<PerformSecurityScan(scannedCode[1])>>
  /\ UNCHANGED << orchestratorVars, blocked, registryVars, sandboxTestVars,
                  toolRegistryVars, timeoutVars, toolCreationLogs, generatorVars,
                  reloadVars, sampleVars, scannedCode, cacheVars >>

ScanInit ==
  /\ activeEvolutions = {}
  /\ runs = {}
  /\ generatedToolRows = {}
  /\ returned = NoResponse
  /\ script = <<>>
  /\ blocked = FALSE
  /\ dbFaults = 0
  /\ RegistryIdle
  /\ SandboxIdle
  /\ ToolRegistryIdle
  /\ TimeoutIdle
  /\ toolCreationLogs = <<>>
  /\ GeneratorIdle
  /\ ReloadIdle /\ SampleIdle /\ CacheIdle
  /\ scannedCode \in {<<handlerCode>> : handlerCode \in ScannedCodes}
  /\ scanReport = <<>>

ScanNext == RunPerformSecurityScan

ScanSpec == ScanInit /\ [][ScanNext]_vars

\* the severity of an issue of a scan result
SeverityOf(issue) ==
  IF issue = 0 THEN "critical" ELSE dangerousPatterns[issue].severity

\* C32: a scan result has passed = false when the source is empty or not a
\* string or when an issue of severity critical or high is among its issues,
\* and passed = true otherwise; each of its four severity counts is the
\* number of its issues of that severity.
C32_PassedIffNoCriticalOrHigh ==
  scanReport # <<>> =>
    LET scan == scanReport[1]
        Count(severity) == Cardinality({i \in scan.issues : SeverityOf(i) = severity})
    IN /\ scannedCode[1].empty => ~scan.passed
       /\ scan.passed <=> ~\E i \in scan.issues : SeverityOf(i) \in {"critical", "high"}
       /\ scan.criticalCount = Count("critical")
       /\ scan.highCount = Count("high")
       /\ scan.mediumCount = Count("medium")
       /\ scan.lowCount = Count("low")
       /\ \A i \in DOMAIN dangerousPatterns :
            (~scannedCode[1].empty /\ PatternTest(dangerousPatterns[i], scannedCode[1]))
              => i \in scan.issues

\* a source with one high and one medium issue and no critical one
C32_Witness ==
  /\ scannedCode = <<Code({"setTimeout(", "WeakRef"}, TRUE, "function", "mcp", "mcp")>>
  /\ scanReport # <<>>
  /\ ~scanReport[1].passed
  /\ scanReport[1].criticalCount = 0
  /\ scanReport[1].highCount = 1
  /\ scanReport[1].mediumCount = 1


\* ------------------------------------------------- reload of the registry
\* the calls of initialize and reload a behaviour makes at most
MaxLoads == 2

\* one call of loadGeneratedTools: `op` is the method that made it, `pc` how
\* far it is ("reading": the query is with the store; "loading": the store
\* has answered; "done"), `failed` whether the query was rejected and `rows`
\* the rows it answered with
Load(op, pc, failed, rows) == [op |-> op, pc |-> pc, failed |-> failed, rows |-> rows]

\* storage.getGeneratedTools('active')
ActiveRows(rows) == {row \in rows : row.status = "active"}

\* the loop of loadGeneratedTools, lines 300-324: a row whose handler does
\* not compile is skipped
LoadRows(tools, rows) ==
  LET loaded == {row \in rows : CompileHandler(row.handlerCode)}
  IN {e \in tools : \A row \in loaded : row.name # e[1]}
     \cup {<<row.name, row.handlerCode>> : row \in loaded}

\* DynamicToolRegistry.initialize, lines 280-294, up to the await of the
\* query; a call on an initialized registry returns at once
Initialize ==
  /\ ~blocked
  /\ ~ContinuationPending
  /\ IF initialized THEN UNCHANGED loads
     ELSE /\ Len(loads) < MaxLoads
          /\ loads' = Append(loads, Load("initialize", "reading", FALSE, {}))
  /\ UNCHANGED << orchestratorVars, blocked, registryVars, sandboxTestVars,
                  toolRegistryVars, initialized >>

\* ToolRegistry.reloadGeneratedTools and DynamicToolRegistry.reload, lines
\* 428-432, up to the await of the query
Reload ==
  /\ ~blocked
  /\ ~ContinuationPending
  /\ Len(loads) < MaxLoads
  /\ generatedTools' = {}
  /\ initialized' = FALSE
  /\ loads' = Append(loads, Load("reload", "reading", FALSE, {}))
  /\ UNCHANGED << orchestratorVars, blocked, execs, sandboxTestVars, toolRegistryVars >>

\* the store answers the query of the i-th load, or rejects it
GetGeneratedTools(i) ==
  /\ i \in DOMAIN loads
  /\ loads[i].pc = "reading"
  /\ \E stored \in StoreOutcomes(1) :
       /\ loads' = [loads EXCEPT
                      ![i] = Load(@.op, "loading", ~stored[1],
                                  IF stored[1] THEN ActiveRows(generatedToolRows)
                                  ELSE {})]
       /\ dbFaults' = dbFaults - Failed(stored)
  /\ UNCHANGED << activeEvolutions, runs, generatedToolRows, returned, script,
                  blocked, registryVars, sandboxTestVars, toolRegistryVars,
                  initialized >>

\* loadGeneratedTools after the query, lines 298-327, and initialize, line
\* 286: a rejected query is logged and the registry is initialized all the same
LoadContinues(i) ==
  /\ ~blocked
  /\ ~ContinuationPending
  /\ i \in DOMAIN loads
  /\ loads[i].pc = "loading"
  /\ generatedTools' = LoadRows(generatedTools, loads[i].rows)
  /\ initialized' = TRUE
  /\ loads' = [loads EXCEPT ![i].pc = "done"]
  /\ UNCHANGED << orchestratorVars, blocked, execs, sandboxTestVars, toolRegistryVars >>

\* ToolRegistry.unregister(name), lines 36-42
Unregister(name) ==
  /\ ~blocked
  /\ ~ContinuationPending
  /\ builtinTools' = builtinTools \ {name}
  /\ UNCHANGED << orchestratorVars, blocked, registryVars, sandboxTestVars,
                  autoEvolveEnabled, calls >>

\* ReloadSpec: a registry that was initialized at startup from a table with
\* an active tool "x", an active tool "y" whose handler does not compile and
\* a disabled tool "z"; tools are called while the registry is reloaded
ReloadRows ==
  { GeneratedToolRow(1, GeneratedToolData(<<"x">>, GoodCode, "ai-generated")),
    GeneratedToolRow(2, GeneratedToolData(<<"y">>, BrokenCode, "ai-generated")),
    [GeneratedToolRow(3, GeneratedToolData(<<"z">>, GoodCode, "ai-generated"))
       EXCEPT !.status = "disabled"] }
ReloadNames == { <<"b">>, <<"x">> }
ReloadCompletions ==
  { ProviderDown, Completion("json", <<"x">>, TRUE, "object", GoodCode) }

ReloadInit ==
  /\ activeEvolutions = {}
  /\ runs = {}
  /\ generatedToolRows = ReloadRows
  /\ returned = NoResponse
  /\ script = <<>>
  /\ blocked = FALSE
  /\ dbFaults = MaxDbFaults
  /\ generatedTools = LoadRows({}, ActiveRows(ReloadRows))
  /\ execs = <<>>
  /\ SandboxIdle
  /\ ToolRegistryIdle
  /\ TimeoutIdle
  /\ toolCreationLogs = <<>>
  /\ GeneratorIdle
  /\ initialized = TRUE
  /\ loads = <<>>
  /\ SampleIdle /\ ScanIdle /\ CacheIdle

ReloadNext ==
  \/ \E name \in ReloadNames, context \in Contexts :
       ExecuteCall(name, "other", context)
       /\ UNCHANGED << timeoutVars, toolCreationLogs, generatorVars, otherVars >>
  \/ \E k \in 1..MaxExecCalls :
       EvolveReturns(k)
       /\ UNCHANGED << timeoutVars, toolCreationLogs, generatorVars, otherVars >>
  \/ \E evolutionId \in Ids :
       /\ ~ContinuationPending
       /\ \/ RunDiscovery(evolutionId, NothingFound)
          \/ RunGeneration(evolutionId, ReloadCompletions)
          \/ RunTesting(evolutionId)
          \/ RunRegistration(evolutionId)
          \/ Complete(evolutionId)
       /\ UNCHANGED << toolRegistryVars, timeoutVars, toolCreationLogs,
                       generatorVars, otherVars >>
  \/ \E name \in BuiltinNames :
       Register(name)
       /\ UNCHANGED << timeoutVars, toolCreationLogs, generatorVars, otherVars >>
  \/ \E name \in BuiltinNames :
       Unregister(name)
       /\ UNCHANGED << timeoutVars, toolCreationLogs, generatorVars, otherVars >>
  \/ Initialize
     /\ UNCHANGED << timeoutVars, toolCreationLogs, generatorVars,
                     sampleVars, scanVars, cacheVars >>
  \/ Reload
     /\ UNCHANGED << timeoutVars, toolCreationLogs, generatorVars,
                     sampleVars, scanVars, cacheVars >>
  \/ \E i \in 1..MaxLoads :
       GetGeneratedTools(i)
       /\ UNCHANGED << timeoutVars, toolCreationLogs, generatorVars,
                       sampleVars, scanVars, cacheVars >>
  \/ \E i \in 1..MaxLoads :
       LoadContinues(i)
       /\ UNCHANGED << timeoutVars, toolCreationLogs, generatorVars,
                       sampleVars, scanVars, cacheVars >>

ReloadSpec == ReloadInit /\ [][ReloadNext]_vars

\* a run is at its registration stage or hands its tool to registerTool
Registering ==
  \/ \E run \in RunsInFlight : run.pc \in {"registration", "completed"}
  \/ ContinuationPending

\* the tools a completed load leaves in the map: those of the active rows
\* whose handler compiles
LoadableNames ==
  {row.name : row \in {r \in ActiveRows(generatedToolRows) :
                         CompileHandler(r.handlerCode)}}

\* C33: when a call of initialize or reload completes while no registration
\* is under way, the generated map holds exactly the tools whose row is
\* active and whose handler compiles, so no tool of a disabled row; and the
\* step leaves the built-in tools as they were.
C33_LoadedExactlyActiveRows ==
  [][\A i \in DOMAIN loads :
       (loads[i].pc = "loading" /\ loads'[i].pc = "done" /\ ~Registering)
         => /\ MapKeys(generatedTools') = LoadableNames
            /\ builtinTools' = builtinTools]_vars


\* ToolRegistry.get(name), lines 44-54, and list(), lines 60-72, as far as
\* the built-in tools go: the entry of the name in builtinTools
GetBuiltin(name) == name \in builtinTools

\* C34: every built-in tool registered at startup is still in the registry,
\* so that get and list return it, whatever registry operations were called:
\* register, unregister, execute, evolveAndExecute, registerTool, reload.
C34_BuiltinsStay == \A name \in BuiltinNames : GetBuiltin(name)

\* C35: a call of ToolRegistry.execute takes the evolve branch only for a
\* name that has no active row in generated_tools, also while a reload is
\* under way.
C35_NoEvolutionOfActiveTool ==
  [][(Len(calls') = Len(calls) + 1 /\ calls'[Len(calls')].route = "evolve")
       => ~\E row \in ActiveRows(generatedToolRows) :
              row.name = calls'[Len(calls')].name]_vars


\* C36: registerTool and loadGeneratedTools put a tool in the generated map
\* after compileHandler has evaluated its source in a VM context; a source is
\* evaluated only after the scanner has passed on it, so every source that
\* enters the map passes the scan.
C36_EvaluatedOnlyAfterScan ==
  [][\A e \in generatedTools' \ generatedTools :
       PerformSecurityScan(e[2]).passed]_vars


\* ------------------------------------------------------- disabled tools
\* the evolve calls the client of DisableSpec makes
DisableCalls == 3

\* DatabaseStorage.deleteGeneratedTool(id), storage.js lines 254-260: the
\* row is kept and its status set to 'disabled'
DeleteGeneratedTool(id) ==
  /\ \E row \in generatedToolRows : row.id = id /\ row.status = "active"
  /\ generatedToolRows' =
       {IF row.id = id THEN [row EXCEPT !.status = "disabled"] ELSE row :
          row \in generatedToolRows}
  /\ UNCHANGED << activeEvolutions, runs, returned, script, dbFaults, blocked,
                  registryVars, sandboxTestVars >>

\* DisableSpec: a scripted client asks for tools while rows are disabled;
\* the provider names its tools after a disabled row, an active row or
\* a name no row has
DisableNames == << <<"z">>, <<"q">>, <<"x">> >>
DisableScript ==
  [k \in 1..DisableCalls |-> StringArg(DisableNames[((k - 1) % Len(DisableNames)) + 1])]
DisableCompletions ==
  {Completion("json", n, TRUE, "object", GoodCode) : n \in { <<"z">>, <<"q">>, <<"x">> }}

DisableInit ==
  /\ activeEvolutions = {}
  /\ runs = {}
  /\ generatedToolRows = ReloadRows
  /\ returned = NoResponse
  /\ script = DisableScript
  /\ blocked = FALSE
  /\ dbFaults = 0
  /\ RegistryIdle
  /\ SandboxIdle
  /\ ToolRegistryIdle
  /\ TimeoutIdle
  /\ toolCreationLogs = <<>>
  /\ GeneratorIdle
  /\ OtherIdle

DisableNext ==
  \/ ScriptedEvolve
     /\ UNCHANGED << toolRegistryVars, timeoutVars, toolCreationLogs, generatorVars, otherVars >>
  \/ \E evolutionId \in Ids :
       /\ \/ RunDiscovery(evolutionId, NothingFound)
          \/ RunGeneration(evolutionId, DisableCompletions)
          \/ RunTesting(evolutionId)
          \/ RunRegistration(evolutionId)
          \/ Complete(evolutionId)
       /\ UNCHANGED << toolRegistryVars, timeoutVars, toolCreationLogs, generatorVars, otherVars >>
  \/ \E id \in 1..(Cardinality(ReloadRows) + DisableCalls) :
       DeleteGeneratedTool(id)
       /\ UNCHANGED << toolRegistryVars, timeoutVars, toolCreationLogs, generatorVars, otherVars >>

DisableSpec == DisableInit /\ [][DisableNext]_vars

\* the run evolutionId is at registration and its tool has the name of a row
NameTaken(evolutionId) ==
  /\ MapHas(runs, evolutionId)
  /\ RunOf(evolutionId).pc = "registration"
  /\ \E row \in generatedToolRows :
       row.name = RunOf(evolutionId).generationResult.tool.name

\* C37: no two rows of generated_tools have the same name, whatever their
\* status; the registration step of a run whose tool has the name of an
\* existing row, active or disabled, returns a failure object to the caller
\* and leaves the table as it was; and no step of a run makes a disabled
\* row active again.
C37_NamesUniqueWhateverStatus ==
  /\ [](\A r1, r2 \in generatedToolRows : r1.name = r2.name => r1 = r2)
  /\ [][\A evolutionId \in Ids :
          (NameTaken(evolutionId) /\ ~MapHas(runs', evolutionId))
            => /\ returned'.accepted /\ ~returned'.success /\ ~returned'.rejects
               /\ returned'.evolutionId = evolutionId
               /\ returned'.error \notin {"", "none"}
               /\ returned'.events[Len(returned'.events) - 1] =
                    CallMade("registration", "createGeneratedTool")
               /\ generatedToolRows' = generatedToolRows]_vars
  /\ [][\A row \in generatedToolRows :
          row.status = "disabled"
            => row \in generatedToolRows'
               /\ ~\E other \in generatedToolRows' :
                     other.name = row.name /\ other.status = "active"]_vars

\* an evolution that generated a tool named like the disabled row "z" has
\* returned its failure, and "z" is still the one disabled row of its name
C37_Witness ==
  /\ returned.accepted /\ ~returned.success
  /\ returned.stage = "unknown"
  /\ \E i \in DOMAIN returned.events :
       returned.events[i] = CallMade("registration", "createGeneratedTool")
  /\ returned.toolName = StringArg(<<"z">>)
  /\ \E row \in generatedToolRows : row.name = <<"z">> /\ row.status = "disabled"
  /\ Cardinality({row \in generatedToolRows : row.name = <<"z">>}) = 1


\* ------------------------------------------------------- rejected calls
\* the evolve calls the client of RejectSpec makes
RejectCalls == 9

\* RejectSpec: a scripted client passes a value that is not a string, the
\* empty string, two names with the same sanitized form and more names than
\* the cap admits, while the completion provider is down; the histories of
\* the runs stand for the table of tool_creation_logs
RejectArgs ==
  << NotAString, StringArg(<<>>), StringArg(<<"X">>), StringArg(<<"x">>),
     StringArg(<<"q">>), StringArg(<<"r">>), StringArg(<<"s">>),
     StringArg(<<"t">>), StringArg(<<"u">>) >>
RejectScript ==
  [k \in 1..RejectCalls |-> RejectArgs[((k - 1) % Len(RejectArgs)) + 1]]

RejectInit ==
  /\ activeEvolutions = {}
  /\ runs = {}
  /\ generatedToolRows = {}
  /\ returned = NoResponse
  /\ script = RejectScript
  /\ blocked = FALSE
  /\ dbFaults = 0
  /\ RegistryIdle
  /\ SandboxIdle
  /\ ToolRegistryIdle
  /\ TimeoutIdle
  /\ toolCreationLogs = <<>>
  /\ GeneratorIdle
  /\ OtherIdle

RejectNext ==
  \/ ScriptedEvolve
     /\ UNCHANGED << toolRegistryVars, timeoutVars, toolCreationLogs, generatorVars, otherVars >>
  \/ \E evolutionId \in Ids :
       RunDiscovery(evolutionId, NothingFound)
       /\ UNCHANGED << toolRegistryVars, timeoutVars, toolCreationLogs, generatorVars, otherVars >>
  \/ \E evolutionId \in Ids :
       RunGeneration(evolutionId, {ProviderDown})
       /\ UNCHANGED << toolRegistryVars, timeoutVars, toolCreationLogs, generatorVars, otherVars >>

RejectSpec == RejectInit /\ [][RejectNext]_vars

\* C38: a step in which an evolve call is rejected (name missing or not a
\* string, name already in progress, cap reached) has an empty history: no
\* row of tool_creation_logs was written or attempted and no call of
\* discovery, generator, sandbox or store was made; no history of a run in
\* flight gets an entry, no store fault is used up, and the runs in flight,
\* the locks, the generated_tools table and the registry are as they were.
C38_RejectionLeavesNoTrace ==
  [][(script' # script /\ returned' # NoResponse /\ ~returned'.accepted)
       => /\ returned'.events = <<>>
          /\ toolCreationLogs' = toolCreationLogs
          /\ activeEvolutions' = activeEvolutions
          /\ runs' = runs
          /\ generatedToolRows' = generatedToolRows
          /\ dbFaults' = dbFaults
          /\ UNCHANGED << registryVars, sandboxTestVars, generatorVars >>]_vars

\* the call for "u" was rejected at the cap, after the calls without a name
\* and the call for "x" had been rejected while "X" was in progress
C38_Witness ==
  /\ script = <<>>
  /\ returned.error = "Maximum concurrent evolutions reached"
  /\ returned.toolName = StringArg(<<"u">>)
  /\ MapSize(activeEvolutions) = MAX_CONCURRENT_EVOLUTIONS
  /\ returned.events = <<>>
  /\ {run.toolName : run \in RunsInFlight} \subseteq
       { <<"X">>, <<"q">>, <<"r">>, <<"s">>, <<"t">> }


\* the step taken added a refused insert into tool_creation_logs to the
\* history of the run evolutionId
LostInStep(evolutionId) ==
  /\ Stepped(evolutionId)
  /\ \E i \in (Len(HistoryBefore(evolutionId)) + 1)..Len(HistoryAfter(evolutionId)) :
       HistoryAfter(evolutionId)[i].kind = "lost"

\* a history as it would be had every insert been stored
AsIfWritten(events) ==
  [i \in DOMAIN events |->
     IF events[i].kind = "lost" THEN LogRow(events[i].stage, events[i].status)
     ELSE events[i]]

\* C39: a step of a run in which storage.logToolCreation failed ends as the
\* same step ends when the row is written: an accepted call starts its run
\* at discovery; discovery goes on to generation; generation goes on to
\* testing with the generated tool or returns the generation failure;
\* testing goes on to registration when the sandbox report passed and
\* returns the testing failure otherwise; registration inserts the tool row
\* and goes on unless the insert of the tool itself is refused; completion
\* returns success with the registered row.  No such step ends in the catch
\* block because of the log.
C39_LostLogRowChangesNothing ==
  [][\A evolutionId \in Ids :
       LostInStep(evolutionId) =>
         LET before == IF MapHas(runs, evolutionId) THEN RunOf(evolutionId).pc
                       ELSE "accepting"
             goesOn == MapHas(runs', evolutionId)
             after == MapGet(runs', evolutionId)
         IN CASE before = "accepting" ->
                   goesOn /\ after.pc = "discovery"
                   /\ AsIfWritten(after.events) = <<LogRow("started", "in_progress")>>
              [] before = "discovery" ->
                   goesOn /\ after.pc = "generation"
                   /\ generatedToolRows' = generatedToolRows
              [] before = "generation" ->
                   /\ generatedToolRows' = generatedToolRows
                   /\ \/ goesOn /\ after.pc = "testing" /\ after.generationResult.success
                      \/ ~goesOn /\ returned'.stage = "generation" /\ ~returned'.success
                         /\ returned'.error \notin {"", "exception"}
              [] before = "testing" ->
                   LET testResults ==
                         SandboxTest(RunOf(evolutionId).generationResult.tool, <<>>)
                   IN /\ generatedToolRows' = generatedToolRows
                      /\ IF ~testResults.returns THEN goesOn /\ after.pc = "testing"
                         ELSE IF testResults.passed
                         THEN goesOn /\ after.pc = "registration"
                              /\ after.testResults = testResults
                         ELSE ~goesOn /\ returned'.stage = "testing"
              [] before = "registration" ->
                   LET tool == RunOf(evolutionId).generationResult.tool
                   IN \/ /\ goesOn /\ after.pc = "completed"
                         /\ \E row \in generatedToolRows' \ generatedToolRows :
                              /\ row.name = tool.name
                              /\ row.handlerCode = tool.handlerCode
                              /\ row.status = "active"
                              /\ generatedToolRows' = generatedToolRows \cup {row}
                      \/ /\ ~goesOn /\ returned'.stage = "unknown"
                         /\ generatedToolRows' = generatedToolRows
                         /\ \/ dbFaults' < dbFaults - 1
                            \/ \E row \in generatedToolRows : row.name = tool.name
              [] before = "completed" ->
                   /\ ~goesOn /\ returned'.success
                   /\ returned'.tool \in generatedToolRows
                   /\ generatedToolRows' = generatedToolRows
              [] OTHER -> FALSE]_vars

\* a run whose started row was lost has gone all the way and returned success
C39_Witness ==
  /\ returned.success
  /\ returned.events # <<>>
  /\ returned.events[1] = LostRow("started", "in_progress")
  /\ returned.tool \in generatedToolRows
  /\ AsIfWritten(returned.events)[Len(returned.events)] = LogRow("completed", "success")


\* ------------------------------------------------------- API-key cache
\* the maxSize of the LRUCache (apiKeys.js constructs it with
\* MAX_CACHE_SIZE) and the number of set and get calls of a behaviour
CacheMaxSize == 2
CacheOps == 4
MAX_CACHE_SIZE == 1000

\* this.accessOrder.filter(k => k !== key)
Without(order, key) == SelectSeq(order, LAMBDA k : k # key)

AccessOrderUntouched(order, key) == order

\* LRUCache.get(key), lines 37-44: the order after a hit
AccessOrderAfterGet(order, key) == Append(Without(order, key), key)

\* LRUCache.set(key, value), lines 46-58
LruSet(entries, order, key, value) ==
  LET kept == IF MapHas(entries, key) THEN Without(order, key) ELSE order
      full == Len(kept) >= CacheMaxSize
      \* accessOrder.shift() of an empty list gives undefined, which no
      \* entry has as its key
      shifted == IF full /\ kept # <<>> THEN Tail(kept) ELSE kept
      evicted == IF full /\ kept # <<>> THEN MapDelete(entries, Head(kept))
                 ELSE entries
  IN [cache |-> MapSet(evicted, key, value), accessOrder |-> Append(shifted, key)]

\* LRUCache.deleteByValue(predicate), lines 70-78: the keys to delete
KeysToDelete(entries, predicate) == {e[1] : e \in {c \in entries : c[2] \in predicate}}

CacheFrame ==
  UNCHANGED << orchestratorVars, blocked, registryVars, sandboxTestVars,
               toolRegistryVars, timeoutVars, toolCreationLogs, generatorVars,
               reloadVars, sampleVars, scanVars >>

CacheGet(key) ==
  /\ Len(touched) < CacheOps
  /\ IF MapHas(cache, key)
     THEN /\ accessOrder' = AccessOrderAfterGet(accessOrder, key)
          /\ touched' = Append(touched, key)
     ELSE UNCHANGED << accessOrder, touched >>
  /\ UNCHANGED cache
  /\ CacheFrame

CacheSet(key, value) ==
  /\ Len(touched) < CacheOps
  /\ cache' = LruSet(cache, accessOrder, key, value).cache
  /\ accessOrder' = LruSet(cache, accessOrder, key, value).accessOrder
  /\ touched' = Append(touched, key)
  /\ CacheFrame

\* LRUCache.delete(key), lines 60-63
CacheDelete(key) ==
  /\ cache' = MapDelete(cache, key)
  /\ accessOrder' = Without(accessOrder, key)
  /\ UNCHANGED touched
  /\ CacheFrame

\* LRUCache.clear(), lines 65-68
CacheClear ==
  /\ cache' = {}
  /\ accessOrder' = <<>>
  /\ UNCHANGED touched
  /\ CacheFrame

CacheDeleteByValue(predicate) ==
  /\ cache' = {e \in cache : e[1] \notin KeysToDelete(cache, predicate)}
  /\ accessOrder' = SelectSeq(accessOrder,
                              LAMBDA k : k \notin KeysToDelete(cache, predicate))
  /\ UNCHANGED touched
  /\ CacheFrame

\* CacheSpec: one more key than the cache holds, two values
CacheKeys == 1..(CacheMaxSize + 1)
CacheValues == {"v", "w"}

CacheInit == Init

CacheNext ==
  \/ \E key \in CacheKeys : CacheGet(key)
  \/ \E key \in CacheKeys, value \in CacheValues : CacheSet(key, value)
  \/ \E key \in CacheKeys : CacheDelete(key)
  \/ CacheClear
  \/ \E predicate \in SUBSET CacheValues : CacheDeleteByValue(predicate)

CacheSpec == CacheInit /\ [][CacheNext]_vars

\* when the key was last set or read
LastTouch(key) ==
  CHOOSE i \in DOMAIN touched :
    touched[i] = key /\ \A j \in DOMAIN touched : touched[j] = key => j <= i

\* the cached key that was set or read least recently
LeastRecent ==
  CHOOSE key \in MapKeys(cache) :
    \A other \in MapKeys(cache) : LastTouch(key) <= LastTouch(other)

\* C40: the cache never holds more than maxSize entries; the access-order
\* list holds exactly the cached keys, each once; and a set of a key that is
\* not cached into a full cache removes exactly the cached key that was
\* least recently set or read.
C40_LruCache ==
  /\ [](/\ MapSize(cache) <= CacheMaxSize
        /\ \A e1, e2 \in cache : e1[1] = e2[1] => e1 = e2
        /\ Range(accessOrder) = MapKeys(cache)
        /\ Len(accessOrder) = Cardinality(MapKeys(cache)))
  /\ [][\A key \in CacheKeys :
          (~MapHas(cache, key) /\ MapHas(cache', key) /\ MapSize(cache) = CacheMaxSize)
            => MapKeys(cache') = (MapKeys(cache) \ {LeastRecent}) \cup {key}]_vars

\* keys 1 and 2 were set, key 1 was read, and the set of key 3 evicted key 2
C40_Witness ==
  /\ touched = <<1, 2, 1, 3>>
  /\ MapKeys(cache) = {1, 3}
  /\ accessOrder = <<1, 3>>

====
